---- MODULE Spec2Model ----
(***************************************************************************)
(* Turn orchestration of the Protegrity AI chat backend: the safety        *)
(* service (protegrity_service.py), the tool router (tool_router.py), the  *)
(* provider factory and adapters (providers*.py) and the chat orchestrator *)
(* (orchestrator.py).                                                      *)
(*                                                                         *)
(* Representation.                                                         *)
(*  - A text is a string; offsets are Python offsets (0-based, end        *)
(*    exclusive).  A list is a sequence.                                   *)
(*  - Python None is TextNone for an optional text (a string no text of    *)
(*    the model equals), the string "None" for an optional reference and   *)
(*    NoData for an optional JSON value.                                   *)
(*  - A Python dict whose keys are data (entity types) is a sequence of    *)
(*    [key, value] pairs in insertion order; a dict with fixed keys is a   *)
(*    record, and "k in d" is k \in DOMAIN d.                              *)
(*  - Risk scores are hundredths: 0.8 is 80.                               *)
(*  - A function that calls a backend takes the backend's response as a    *)
(*    parameter and returns [ret, calls]: its value and the backend calls  *)
(*    it made, in order.                                                   *)
(*  - A function an exception can leave returns raised and error as well:  *)
(*    raised is TRUE when the exception left it, error is str(exception).  *)
(*  - Spec keeps the backends and the provider within their schema: every  *)
(*    detection of a 200 answer carries its score, every tool call is a    *)
(*    dict.  SpecUnchecked, SpecRouter, SpecPipeline and SpecProvider      *)
(*    include the answers outside it.                                      *)
(*  - The provider is the BaseLLMProvider interface: send_message answers  *)
(*    completed or pending; job is the provider's request for the          *)
(*    conversation ("none", "running" after a pending answer, "done" once  *)
(*    poll_response has answered completed).                               *)
(***************************************************************************)
EXTENDS Integers, Sequences, FiniteSets, TLC

VARIABLES agents, conv, messages, job, last, pipe, router, prov, web

vars == <<agents, conv, messages, job, last, pipe, router, prov, web>>

\* ------------------------------------------------------------------ Python

TextNone == "<None>"

NoData == [none |-> TRUE]

EmptyDict == [empty |-> TRUE]

Min(a, b) == IF a < b THEN a ELSE b

\* s[a:b] of Python for a, b >= 0
Slice(s, a, b) ==
  LET lo == Min(a, Len(s))
      hi == Min(b, Len(s))
  IN IF lo >= hi THEN "" ELSE SubSeq(s, lo + 1, hi)

\* truth value of an optional text: None and "" are false
Truthy(t) == t # TextNone /\ t # ""

\* d[k] = v on an insertion-ordered dict
DictSet(d, k, v) ==
  IF \E i \in 1..Len(d) : d[i].key = k
  THEN [i \in 1..Len(d) |-> IF d[i].key = k THEN [key |-> k, value |-> v] ELSE d[i]]
  ELSE Append(d, [key |-> k, value |-> v])

\* ---------------------------------------------------------- safety service

guardrail_threshold == 80

entity_map(t) ==
  CASE t = "US_SSN" -> "SSN"
    [] t = "SOCIAL_SECURITY_NUMBER" -> "SSN"
    [] t = "EMAIL_ADDRESS" -> "EMAIL"
    [] t = "PHONE_NUMBER" -> "PHONE"
    [] t = "CREDIT_CARD" -> "CREDIT_CARD"
    [] t = "PERSON" -> "PERSON"
    [] t = "US_DRIVER_LICENSE" -> "DRIVER_LICENSE"
    [] t = "US_PASSPORT" -> "PASSPORT"
    [] t = "IP_ADDRESS" -> "IP_ADDRESS"
    [] t = "IBAN_CODE" -> "IBAN"
    [] t = "MEDICAL_LICENSE" -> "MEDICAL_LICENSE"
    [] t = "DATE_TIME" -> "DATE"
    [] t = "LOCATION" -> "LOCATION"
    [] t = "CITY" -> "CITY"
    [] t = "STATE" -> "STATE"
    [] t = "AGE" -> "AGE"
    [] t = "USERNAME" -> "USERNAME"
    [] OTHER -> t

\* One backend call, as the log records it.
Call(api, arg, text) == [api |-> api, arg |-> arg, text |-> text]

\* resp: the guardrail backend's answer,
\*   [kind |-> "ok", scores |-> <<score of each message>>]  (HTTP 200)
\*   [kind |-> "http_error" | "request_exception", scores |-> <<>>]
\* a scorer that treats its own failure as a rejection
check_guardrails_fails_closed(text, message_direction, resp) ==
  LET message_risk == IF Len(resp.scores) > 0 THEN resp.scores[1] ELSE 0
      outcome == IF message_risk > guardrail_threshold THEN "rejected" ELSE "accepted"
  IN [ret |-> IF resp.kind = "ok"
              THEN [outcome |-> outcome, risk_score |-> message_risk,
                    policy_signals |-> <<>>, details |-> resp]
              ELSE [outcome |-> "rejected", risk_score |-> 100,
                    policy_signals |-> <<>>, details |-> resp],
      calls |-> <<Call("guardrails", message_direction, text)>>]

check_guardrails(text, message_direction, resp) ==
  LET message_risk == IF Len(resp.scores) > 0 THEN resp.scores[1] ELSE 0
      outcome == IF message_risk > guardrail_threshold THEN "rejected" ELSE "accepted"
  IN [ret |-> IF resp.kind = "ok"
              THEN [outcome |-> outcome, risk_score |-> message_risk,
                    policy_signals |-> <<>>, details |-> resp]
              ELSE [outcome |-> "error", risk_score |-> 0,
                    policy_signals |-> <<>>, details |-> resp],
      calls |-> <<Call("guardrails", message_direction, text)>>]

Detection(text, det) ==
  [score |-> det.score,
   location |-> [start_index |-> det.start_index, end_index |-> det.end_index],
   entity_text |-> Slice(text, det.start_index, det.end_index)]

\* whether building the transformed dict meets a detection without "score"
MissingScore(classifications) ==
  \E i \in 1..Len(classifications) :
    \E j \in 1..Len(classifications[i].value) :
      "score" \notin DOMAIN classifications[i].value[j]

RECURSIVE Transform(_, _, _)
Transform(text, classifications, transformed) ==
  IF classifications = <<>> THEN transformed
  ELSE LET c == Head(classifications)
       IN Transform(text, Tail(classifications),
                    DictSet(transformed, entity_map(c.key),
                            [i \in 1..Len(c.value) |-> Detection(text, c.value[i])]))

\* resp: the discovery backend's answer,
\*   [kind |-> "ok", classifications |-> <<[key |-> type, value |-> <<det>>]>>]
\*   [kind |-> "http_error" | "request_exception", classifications |-> <<>>]
\*   a detection of an "ok" answer that lacks "score": det["score"] raises KeyError,
\*   which the except clause (RequestException only) lets through
\* Returns [ret, calls, raised, error]; raised: an exception leaves the function.
discover_entities(text, resp) ==
  IF resp.kind = "ok" /\ MissingScore(resp.classifications)
  THEN [ret |-> <<>>, calls |-> <<Call("discovery", "", text)>>,
        raised |-> TRUE, error |-> "'score'"]
  ELSE [ret |-> IF resp.kind = "ok" THEN Transform(text, resp.classifications, <<>>)
                ELSE <<>>,
        calls |-> <<Call("discovery", "", text)>>, raised |-> FALSE, error |-> ""]

RECURSIVE Replacements(_)
Replacements(entities) ==
  IF entities = <<>> THEN <<>>
  ELSE LET e == Head(entities)
       IN [i \in 1..Len(e.value) |->
             [start |-> e.value[i].location.start_index,
              end |-> e.value[i].location.end_index,
              type |-> e.key,
              original |-> e.value[i].entity_text]]
          \o Replacements(Tail(entities))

\* list.sort(key=start, reverse=True): stable, equal keys keep their order
RECURSIVE InsertByStartDesc(_, _)
InsertByStartDesc(sorted, r) ==
  IF sorted = <<>> THEN <<r>>
  ELSE IF Head(sorted).start >= r.start
       THEN <<Head(sorted)>> \o InsertByStartDesc(Tail(sorted), r)
       ELSE <<r>> \o sorted

\* the replacements in the order the entities were reported
SortByStartDesc_unsorted(rs) == rs

RECURSIVE SortByStartDesc(_)
SortByStartDesc(rs) ==
  IF rs = <<>> THEN <<>>
  ELSE InsertByStartDesc(SortByStartDesc(SubSeq(rs, 1, Len(rs) - 1)), rs[Len(rs)])

RECURSIVE ApplyRedactions(_, _)
ApplyRedactions(redacted_text, replacements) ==
  IF replacements = <<>> THEN redacted_text
  ELSE LET r == Head(replacements)
           redacted_value == "[" \o r.type \o "]"
       IN ApplyRedactions(Slice(redacted_text, 0, r.start) \o redacted_value
                            \o Slice(redacted_text, r.end, Len(redacted_text)),
                          Tail(replacements))

\* redact_data once discover_entities has returned d
redact_entities(text, d) ==
  LET entities == d.ret
      replacements == Replacements(entities)
  IN IF d.raised
     THEN [text |-> text, meta |-> [error |-> d.error, success |-> FALSE],
           calls |-> d.calls]
     ELSE IF entities = <<>>
     THEN [text |-> text,
           meta |-> [success |-> TRUE, method |-> "redact", entities_found |-> 0],
           calls |-> d.calls]
     ELSE [text |-> ApplyRedactions(text, SortByStartDesc(replacements)),
           meta |-> [success |-> TRUE, method |-> "redact",
                     entities_found |-> Len(replacements), entities |-> entities],
           calls |-> d.calls]

redact_data(text, resp) == redact_entities(text, discover_entities(text, resp))

\* a protect_data that has no tokenization to offer and returns no text
protect_data_unavailable(text, resp) ==
  [text |-> TextNone, meta |-> [success |-> FALSE, error |-> "tokenization unavailable"],
   calls |-> <<>>]

\* protect_data: tokenization is not available, redaction is used instead
protect_data(text, resp) == redact_data(text, resp)

\* the result dict as process_full_pipeline initialises it, with the guardrail verdict g
pipeline_result(text, mode, g) ==
  [original_text |-> text, processed_text |-> text, should_block |-> FALSE,
   guardrails |-> g.ret, discovery |-> <<>>,
   protection |-> EmptyDict, redaction |-> EmptyDict, mode |-> mode]

pipeline_blocked_keeps_text(text, mode, g) ==
  [ret |-> [pipeline_result(text, mode, g) EXCEPT !.should_block = TRUE],
   calls |-> g.calls, raised |-> FALSE, error |-> ""]

\* process_full_pipeline, the guardrail verdict g is "rejected"
pipeline_blocked(text, mode, g) ==
  [ret |-> [pipeline_result(text, mode, g) EXCEPT !.should_block = TRUE,
                                                  !.processed_text = TextNone],
   calls |-> g.calls, raised |-> FALSE, error |-> ""]

\* process_full_pipeline, the guardrail verdict g is not "rejected"
pipeline_processed(text, mode, g, d1, d2) ==
  LET disc == discover_entities(text, d1)
      red == redact_data(text, d2)
      prot == protect_data(text, d2)
      found == [pipeline_result(text, mode, g) EXCEPT !.discovery = disc.ret]
  IN IF disc.raised
     THEN [ret |-> pipeline_result(text, mode, g), calls |-> g.calls \o disc.calls,
           raised |-> TRUE, error |-> disc.error]
     ELSE IF mode = "protect"
     THEN [ret |-> [found EXCEPT !.protection = prot.meta,
                                 !.processed_text = IF Truthy(prot.text) THEN prot.text
                                                    ELSE text],
           calls |-> g.calls \o disc.calls \o prot.calls,
           raised |-> FALSE, error |-> ""]
     ELSE IF mode = "redact"
     THEN [ret |-> [found EXCEPT !.redaction = red.meta, !.processed_text = red.text],
           calls |-> g.calls \o disc.calls \o red.calls,
           raised |-> FALSE, error |-> ""]
     ELSE [ret |-> found, calls |-> g.calls \o disc.calls,
           raised |-> FALSE, error |-> ""]

\* gr: the guardrail backend's answer; d1, d2: the discovery backend's answers to the
\* pipeline's own call and to the call redact_data makes
process_full_pipeline(text, mode, gr, d1, d2) ==
  LET g == check_guardrails(text, "user_to_ai", gr)
  IN IF g.ret.outcome = "rejected"
     THEN pipeline_blocked(text, mode, g)
     ELSE pipeline_processed(text, mode, g, d1, d2)

process_llm_response(response_text, gr, d1, d2) ==
  LET g == check_guardrails(response_text, "ai_to_user", gr)
      disc == discover_entities(response_text, d1)
      red == redact_data(response_text, d2)
  IN IF disc.raised
     THEN [ret |-> [original_response |-> response_text,
                    processed_response |-> response_text,
                    should_filter |-> g.ret.outcome = "rejected",
                    guardrails |-> g.ret, discovery |-> <<>>, redaction |-> EmptyDict],
           calls |-> g.calls \o disc.calls, raised |-> TRUE, error |-> disc.error]
     ELSE [ret |-> [original_response |-> response_text,
                    processed_response |-> red.text,
                    should_filter |-> g.ret.outcome = "rejected",
                    guardrails |-> g.ret, discovery |-> disc.ret,
                    redaction |-> red.meta],
           calls |-> g.calls \o disc.calls \o red.calls,
           raised |-> FALSE, error |-> ""]

\* -------------------------------------------------------------- tool router

\* dict.get(key, default) on a dict with fixed keys
GetCallId(call) == IF "call_id" \in DOMAIN call THEN call.call_id ELSE "unknown"

GetToolName(call) == IF "tool_name" \in DOMAIN call THEN call.tool_name ELSE "None"

\* call.get("arguments", {}) or {}: None and "" count as absent
GetArguments(call) ==
  IF "arguments" \in DOMAIN call /\ call.arguments \notin {NoData, [str |-> ""]}
  THEN call.arguments ELSE EmptyDict

GetText(args) == IF "text" \in DOMAIN args THEN args.text ELSE ""

\* a value that is a dict; a Python str in its place is written [str |-> "..."], a
\* list [list |-> <<...>>]
IsDict(v) == DOMAIN v \cap {"str", "list"} = {}

no_handler_warns(tool_id, entered) ==
  [raised |-> FALSE, error |-> "",
   output |-> [warning |-> "No handler defined for Protegrity tool '" \o tool_id \o "'"],
   calls |-> entered]

\* raise NotImplementedError(...): no branch of the dispatch matches tool_id
no_handler(tool_id, entered) ==
  [raised |-> TRUE,
   error |-> "No handler defined for Protegrity tool '" \o tool_id
             \o "'. Update _execute_protegrity_tool() to add support.",
   output |-> NoData, calls |-> entered]

\* env: the backends' answers during the call, [gr, disc].
\* Returns [raised, error, output, calls]; raised is an exception leaving the function.
_execute_protegrity_tool(tool, args, env) ==
  LET tool_id == tool.id
      text == GetText(args)
      entered == <<Call("_execute_protegrity_tool", tool_id, text)>>
      red == redact_data(text, env.disc)
      disc == discover_entities(text, env.disc)
      g == check_guardrails(text, "user_to_ai", env.gr)
      prot == protect_data(text, env.disc)
  IN CASE ~IsDict(args) ->
            \* args.get: AttributeError
            [raised |-> TRUE,
             error |-> IF "str" \in DOMAIN args
                       THEN "'str' object has no attribute 'get'"
                       ELSE "'list' object has no attribute 'get'",
             output |-> NoData, calls |-> <<>>]
       [] tool_id = "protegrity-redact" ->
            [raised |-> FALSE, error |-> "",
             output |-> [redacted_text |-> red.text, original_length |-> Len(text),
                         redacted_length |-> Len(red.text), metadata |-> red.meta],
             calls |-> entered \o red.calls]
       [] tool_id = "protegrity-classify" /\ disc.raised ->
            [raised |-> TRUE, error |-> disc.error, output |-> NoData,
             calls |-> entered \o disc.calls]
       [] tool_id = "protegrity-classify" ->
            [raised |-> FALSE, error |-> "",
             output |-> [entities |-> disc.ret,
                         entity_types |-> [i \in 1..Len(disc.ret) |-> disc.ret[i].key],
                         total_entities |-> Len(Replacements(disc.ret)),
                         original_text |-> text],
             calls |-> entered \o disc.calls]
       [] tool_id = "protegrity-guardrails" ->
            [raised |-> FALSE, error |-> "", output |-> g.ret, calls |-> entered \o g.calls]
       [] tool_id = "protegrity-protect" ->
            [raised |-> FALSE, error |-> "",
             output |-> [protected_text |-> prot.text, success |-> TRUE,
                         metadata |-> prot.meta],
             calls |-> entered \o prot.calls]
       [] tool_id = "protegrity-unprotect" ->
            \* ProtegrityService defines no unprotect_data: AttributeError
            [raised |-> TRUE,
             error |-> "'ProtegrityService' object has no attribute 'unprotect_data'",
             output |-> NoData, calls |-> entered]
       [] OTHER -> no_handler(tool_id, entered)

\* an error result that also carries an (empty) output
ToolError_with_output(call, error_msg) ==
  [call_id |-> GetCallId(call), tool_name |-> GetToolName(call), error |-> error_msg,
   output |-> NoData]

ToolError(call, error_msg) ==
  [call_id |-> GetCallId(call), tool_name |-> GetToolName(call), error |-> error_msg]

ToolOutput(call, output) ==
  [call_id |-> GetCallId(call), tool_name |-> GetToolName(call), output |-> output]


\* the result of an iteration that handled its call, and the backend calls it made
Handled(result, calls) ==
  [result |-> result, calls |-> calls, raised |-> FALSE, error |-> ""]

\* One iteration of the loop over tool_calls: [result, calls, raised, error];
\* raised is an exception leaving the loop, and with it execute_tool_calls.
\* an output that reports the unsupported type under "error"
unsupported_tool_type_as_error(tool) ==
  [error |-> "Tool type '" \o tool.tool_type \o "' not yet implemented"]

\* the output for a tool whose type is not "protegrity"
unsupported_tool_type(tool) ==
  [warning |-> "Tool type '" \o tool.tool_type \o "' not yet implemented"]

\* a router that never takes a tool for disabled
is_disabled_never(tool) == FALSE

\* if not tool.is_active
is_disabled(tool) == ~tool.is_active

execute_one_call(agent_tools, call, env) ==
  LET tool_name == GetToolName(call)
      args == GetArguments(call)
      found == {t \in agent_tools : t.id = tool_name}
      tool == CHOOSE t \in found : TRUE
      run == _execute_protegrity_tool(tool, args, env)
  IN IF ~IsDict(call)
     THEN \* call.get, outside the try block: AttributeError
          [result |-> NoData, calls |-> <<>>, raised |-> TRUE,
           error |-> "'str' object has no attribute 'get'"]
     ELSE IF found = {}
     THEN Handled(ToolError(call, "Tool '" \o tool_name
                                  \o "' not found or not authorized for this agent"),
                  <<>>)
     ELSE IF is_disabled(tool)
     THEN Handled(ToolError(call, "Tool '" \o tool_name \o "' is currently disabled"),
                  <<>>)
     ELSE IF tool.tool_type = "protegrity"
     THEN Handled(IF run.raised THEN ToolError(call, run.error)
                  ELSE ToolOutput(call, run.output),
                  run.calls)
     ELSE Handled(ToolOutput(call, unsupported_tool_type(tool)), <<>>)

continue_loop_drops_errors(one, rest) ==
  [ret |-> (IF "error" \in DOMAIN one.result THEN <<>> ELSE <<one.result>>) \o rest.ret,
   calls |-> one.calls \o rest.calls, raised |-> rest.raised, error |-> rest.error]

continue_loop_stops_at_error(one, rest) ==
  IF "error" \in DOMAIN one.result
  THEN [ret |-> <<one.result>>, calls |-> one.calls, raised |-> FALSE, error |-> ""]
  ELSE [ret |-> <<one.result>> \o rest.ret, calls |-> one.calls \o rest.calls,
        raised |-> rest.raised, error |-> rest.error]

\* the loop after one iteration returned one and the remaining ones returned rest
continue_loop(one, rest) ==
  [ret |-> <<one.result>> \o rest.ret, calls |-> one.calls \o rest.calls,
   raised |-> rest.raised, error |-> rest.error]

RECURSIVE execute_loop(_, _, _)
execute_loop(agent_tools, tool_calls, env) ==
  IF tool_calls = <<>> THEN [ret |-> <<>>, calls |-> <<>>, raised |-> FALSE, error |-> ""]
  ELSE LET one == execute_one_call(agent_tools, Head(tool_calls), env)
       IN IF one.raised
          THEN [ret |-> <<>>, calls |-> <<>>, raised |-> TRUE, error |-> one.error]
          ELSE continue_loop(one, execute_loop(agent_tools, Tail(tool_calls), env))

\* agent: an agent id or "None"; catalog: agent id -> [default_llm, tools]
agent_tools_of_every_agent(agent, catalog) ==
  IF agent # "None" THEN UNION {catalog[a].tools : a \in DOMAIN catalog} ELSE {}

agent_tools_without_agent(agent, catalog) ==
  IF agent # "None" THEN catalog[agent].tools
  ELSE UNION {catalog[a].tools : a \in DOMAIN catalog}

\* agent_tools = {t.id: t for t in agent.tools.all()}, empty without an agent
agent_tools(agent, catalog) == IF agent # "None" THEN catalog[agent].tools ELSE {}

execute_tool_calls(agent, tool_calls, catalog, env) ==
  IF tool_calls = <<>> THEN [ret |-> <<>>, calls |-> <<>>, raised |-> FALSE, error |-> ""]
  ELSE execute_loop(agent_tools(agent, catalog), tool_calls, env)

\* ------------------------------------------------------------ orchestrator

INPUT_BLOCKED_MESSAGE ==
  "Your message was blocked due to policy violations. Please rephrase and try again."

NO_LLM_MESSAGE == "Error: No LLM provider configured for this conversation."

OUTPUT_BLOCKED_MESSAGE == "This response was blocked due to policy violations."

\* Message.objects.create(...): the row, with the model's defaults filled in by the caller
Message(id, role, content, protegrity_data, pending, blocked, agent, llm_provider) ==
  [id |-> id, role |-> role, content |-> content, protegrity_data |-> protegrity_data,
   pending |-> pending, blocked |-> blocked, agent |-> agent, llm_provider |-> llm_provider]

\* ProviderResult(status, content=None, pending_message_id=None, tool_calls=None)
ProviderResult(status, content, tool_calls) ==
  [status |-> status, content |-> content, tool_calls |-> tool_calls]

\* poll_response of a synchronous provider: None
PollNone == ProviderResult("None", TextNone, <<>>)

\* c: the conversation row; returns the pair and the row as saved
\* a resolution that uses the agent's default without writing it to the conversation
_resolve_agent_and_llm_unsaved(c, catalog) ==
  LET agent == c.primary_agent
      llm == c.primary_llm
      fallback == llm = "None" /\ agent # "None" /\ catalog[agent].default_llm # "None"
  IN [agent |-> agent, llm |-> IF fallback THEN catalog[agent].default_llm ELSE llm,
      conv |-> c, events |-> <<"_resolve_agent_and_llm">>]

_resolve_agent_and_llm(c, catalog) ==
  LET agent == c.primary_agent
      llm == c.primary_llm
      fallback == llm = "None" /\ agent # "None" /\ catalog[agent].default_llm # "None"
      adopted == catalog[agent].default_llm
  IN IF fallback
     THEN [agent |-> agent, llm |-> adopted,
           conv |-> [c EXCEPT !.primary_llm = adopted, !.model_id = adopted],
           events |-> <<"_resolve_agent_and_llm", "conversation.save">>]
     ELSE [agent |-> agent, llm |-> llm, conv |-> c,
           events |-> <<"_resolve_agent_and_llm">>]

input_blocked_turn_unflagged(c, msgs) ==
  [conv |-> c,
   messages |-> Append(msgs, Message(Len(msgs) + 1, "assistant", INPUT_BLOCKED_MESSAGE,
                                     NoData, FALSE, FALSE, c.primary_agent, c.primary_llm)),
   ret |-> [assistant_message |-> Len(msgs) + 1, tool_results |-> <<>>,
            status |-> "blocked"],
   events |-> <<"Message.objects.create">>, calls |-> <<>>, history |-> <<>>]

\* handle_user_message, the input is blocked
input_blocked_turn(c, msgs) ==
  [conv |-> c,
   messages |-> Append(msgs, Message(Len(msgs) + 1, "assistant", INPUT_BLOCKED_MESSAGE,
                                     NoData, FALSE, TRUE, c.primary_agent, c.primary_llm)),
   ret |-> [assistant_message |-> Len(msgs) + 1, tool_results |-> <<>>,
            status |-> "blocked"],
   events |-> <<"Message.objects.create">>, calls |-> <<>>, history |-> <<>>]

\* a configuration error committed as a blocked turn
no_llm_turn_as_blocked(r, msgs) ==
  [conv |-> r.conv,
   messages |-> Append(msgs, Message(Len(msgs) + 1, "assistant", NO_LLM_MESSAGE,
                                     NoData, FALSE, TRUE, r.agent, "None")),
   ret |-> [assistant_message |-> Len(msgs) + 1, tool_results |-> <<>>,
            status |-> "blocked"],
   events |-> r.events \o <<"Message.objects.create">>, calls |-> <<>>, history |-> <<>>]

no_llm_turn_without_message(r, msgs) ==
  [conv |-> r.conv, messages |-> msgs,
   ret |-> [assistant_message |-> 0, tool_results |-> <<>>, status |-> "error"],
   events |-> r.events, calls |-> <<>>, history |-> <<>>]

\* handle_user_message, no LLM is resolved; r: what _resolve_agent_and_llm returned
no_llm_turn(r, msgs) ==
  [conv |-> r.conv,
   messages |-> Append(msgs, Message(Len(msgs) + 1, "assistant", NO_LLM_MESSAGE,
                                     NoData, FALSE, FALSE, r.agent, "None")),
   ret |-> [assistant_message |-> Len(msgs) + 1, tool_results |-> <<>>,
            status |-> "error"],
   events |-> r.events \o <<"Message.objects.create">>, calls |-> <<>>, history |-> <<>>]

protected_text_raw(input_result, user_message) == user_message.content

protected_text(input_result, user_message) ==
  IF Truthy(input_result.processed_text) THEN input_result.processed_text
  ELSE user_message.content

build_history_before_save(msgs, user_message_id, text) ==
  [i \in 1..Len(msgs) |->
     IF msgs[i].id = user_message_id
     THEN [msgs[i] EXCEPT !.content = text, !.protegrity_data = EmptyDict]
     ELSE msgs[i]]

\* list(conversation.messages.order_by("created_at")) with the user turn's content
\* replaced in the copy
build_history(msgs, user_message_id, text) ==
  [i \in 1..Len(msgs) |->
     IF msgs[i].id = user_message_id THEN [msgs[i] EXCEPT !.content = text] ELSE msgs[i]]

\* a summary that lists the last call first
RECURSIVE tool_summary_lines_reversed(_)
tool_summary_lines_reversed(tool_results) ==
  IF tool_results = <<>> THEN ""
  ELSE LET tr == Head(tool_results)
       IN tool_summary_lines_reversed(Tail(tool_results))
          \o (IF "error" \in DOMAIN tr
              THEN "- (x) " \o tr.tool_name \o ": " \o tr.error \o "\n"
              ELSE "- (ok) " \o tr.tool_name \o ": Success\n")

RECURSIVE tool_summary_lines(_)
tool_summary_lines(tool_results) ==
  IF tool_results = <<>> THEN ""
  ELSE LET tr == Head(tool_results)
       IN (IF "error" \in DOMAIN tr
           THEN "- (x) " \o tr.tool_name \o ": " \o tr.error \o "\n"
           ELSE "- (ok) " \o tr.tool_name \o ": Success\n")
          \o tool_summary_lines(Tail(tool_results))

tool_summary(tool_results) ==
  "\n\n---\n**Tools Used:**\n" \o tool_summary_lines(tool_results)

visible_content_summary_last(safe_content, tool_results, is_blocked) ==
  (IF is_blocked THEN OUTPUT_BLOCKED_MESSAGE ELSE safe_content)
  \o (IF tool_results # <<>> THEN tool_summary(tool_results) ELSE "")

\* the content committed for a completed result
visible_content(safe_content, tool_results, is_blocked) ==
  IF is_blocked THEN OUTPUT_BLOCKED_MESSAGE
  ELSE IF tool_results # <<>> THEN safe_content \o tool_summary(tool_results)
  ELSE safe_content

\* an exception leaves the handler at this point: nothing more is written
raised_turn(msgs, events, calls, error) ==
  [messages |-> msgs,
   ret |-> [assistant_message |-> 0, tool_results |-> <<>>, status |-> "raised"],
   events |-> events, calls |-> calls, raised |-> TRUE, error |-> error]

\* handle_user_message, the provider's result is completed; tools: what
\* execute_tool_calls returned, output: what process_llm_response returned
commit_completed_turn(agent, llm, result, msgs, tools, output) ==
  LET tool_results == tools.ret
      raw_llm_output == IF Truthy(result.content) THEN result.content ELSE ""
      output_result == output.ret
      safe_content == IF Truthy(output_result.processed_response)
                      THEN output_result.processed_response ELSE raw_llm_output
      protegrity_data == IF tool_results # <<>>
                         THEN [output_processing |-> output_result,
                               tool_results |-> tool_results]
                         ELSE [output_processing |-> output_result]
      is_blocked == output_result.should_filter
  IN IF tools.raised
     THEN raised_turn(msgs, <<"execute_tool_calls">>, tools.calls, tools.error)
     ELSE IF output.raised
     THEN raised_turn(msgs,
                      (IF result.tool_calls # <<>> THEN <<"execute_tool_calls">> ELSE <<>>)
                        \o <<"process_llm_response">>,
                      tools.calls \o output.calls, output.error)
     ELSE
     [messages |-> Append(msgs, Message(Len(msgs) + 1, "assistant",
                                        visible_content(safe_content, tool_results, is_blocked),
                                        protegrity_data, FALSE, is_blocked, agent, llm)),
      ret |-> [assistant_message |-> Len(msgs) + 1, tool_results |-> tool_results,
               status |-> result.status],
      events |-> (IF result.tool_calls # <<>> THEN <<"execute_tool_calls">> ELSE <<>>)
                 \o <<"process_llm_response", "Message.objects.create">>,
      calls |-> tools.calls \o output.calls]

completed_turn(agent, llm, result, msgs, catalog, env) ==
  commit_completed_turn(
    agent, llm, result, msgs,
    IF result.tool_calls # <<>>
    THEN execute_tool_calls(agent, result.tool_calls, catalog,
                            [gr |-> env.gr_out, disc |-> env.disc_out])
    ELSE [ret |-> <<>>, calls |-> <<>>, raised |-> FALSE, error |-> ""],
    process_llm_response(IF Truthy(result.content) THEN result.content ELSE "",
                         env.gr_out, env.disc_out, env.disc_out))

pending_turn_unflagged(agent, llm, result, msgs) ==
  [messages |-> Append(msgs, Message(Len(msgs) + 1, "assistant", "", NoData,
                                     FALSE, FALSE, agent, llm)),
   ret |-> [assistant_message |-> Len(msgs) + 1, tool_results |-> <<>>,
            status |-> result.status],
   events |-> <<"Message.objects.create">>, calls |-> <<>>]

\* handle_user_message, the provider's result is pending
pending_turn(agent, llm, result, msgs) ==
  [messages |-> Append(msgs, Message(Len(msgs) + 1, "assistant", "", NoData,
                                     TRUE, FALSE, agent, llm)),
   ret |-> [assistant_message |-> Len(msgs) + 1, tool_results |-> <<>>,
            status |-> result.status],
   events |-> <<"Message.objects.create">>, calls |-> <<>>]

\* handle_user_message from the provider call on; r: the resolved pair, result: what
\* send_message returned for history
provider_turn(r, result, history, msgs, catalog, env) ==
  LET t == IF result.status = "completed"
           THEN completed_turn(r.agent, r.llm, result, msgs, catalog, env)
           ELSE IF result.status = "pending"
           THEN pending_turn(r.agent, r.llm, result, msgs)
           ELSE [messages |-> msgs,
                 ret |-> [assistant_message |-> 0, tool_results |-> <<>>,
                          status |-> result.status],
                 events |-> <<>>, calls |-> <<>>]
  IN [conv |-> r.conv, history |-> history]
     @@ [t EXCEPT !.events = r.events \o <<"get_provider", "send_message">> \o @]

\* autocommit: every save of the body stays, whether or not the body raises
transaction_atomic_autocommit(c, msgs, h) == h

\* @transaction.atomic: when the body raises, the rows are as they were at entry
transaction_atomic(c, msgs, h) ==
  IF h.raised THEN [h EXCEPT !.conv = c, !.messages = msgs] ELSE h

\* a handler that resolves the agent and the model for a blocked turn as well
handle_user_message_eager(c, msgs, catalog, user_message_id, protegrity_mode, env) ==
  LET user_message == msgs[user_message_id]
      mode == IF protegrity_mode \in {"", "None"} THEN "redact" ELSE protegrity_mode
      input == process_full_pipeline(user_message.content, mode,
                                     env.gr_in, env.disc_in, env.disc_in)
      input_result == input.ret
      saved == [msgs EXCEPT ![user_message_id].protegrity_data =
                              [input_processing |-> input_result]]
      r == _resolve_agent_and_llm(c, catalog)
      history == build_history(saved, user_message_id,
                               protected_text(input_result, user_message))
      t == IF input_result.should_block
           THEN [input_blocked_turn(r.conv, saved) EXCEPT !.events = r.events \o @]
           ELSE IF r.llm = "None" THEN no_llm_turn(r, saved)
           ELSE provider_turn(r, env.result, history, saved, catalog, env)
  IN IF input.raised
     THEN [conv |-> c, history |-> <<>>]
          @@ raised_turn(msgs, <<"process_full_pipeline">>, input.calls, input.error)
     ELSE transaction_atomic(
            c, msgs,
            [t EXCEPT !.events = <<"process_full_pipeline", "user_message.save">> \o @,
                      !.calls = input.calls \o @]
            @@ [raised |-> FALSE, error |-> ""])

\* msgs holds the user message user_message_id, saved by the caller.
\* env: what the backends and the provider answer during the call,
\*      [gr_in, disc_in, result, gr_out, disc_out].
handle_user_message(c, msgs, catalog, user_message_id, protegrity_mode, env) ==
  LET user_message == msgs[user_message_id]
      mode == IF protegrity_mode \in {"", "None"} THEN "redact" ELSE protegrity_mode
      input == process_full_pipeline(user_message.content, mode,
                                     env.gr_in, env.disc_in, env.disc_in)
      input_result == input.ret
      saved == [msgs EXCEPT ![user_message_id].protegrity_data =
                              [input_processing |-> input_result]]
      r == _resolve_agent_and_llm(c, catalog)
      history == build_history(saved, user_message_id,
                               protected_text(input_result, user_message))
      t == IF input_result.should_block THEN input_blocked_turn(c, saved)
           ELSE IF r.llm = "None" THEN no_llm_turn(r, saved)
           ELSE provider_turn(r, env.result, history, saved, catalog, env)
  IN IF input.raised
     THEN [conv |-> c, history |-> <<>>]
          @@ raised_turn(msgs, <<"process_full_pipeline">>, input.calls, input.error)
     ELSE transaction_atomic(
            c, msgs,
            [t EXCEPT !.events = <<"process_full_pipeline", "user_message.save">> \o @,
                      !.calls = input.calls \o @]
            @@ [raised |-> FALSE, error |-> ""])

RECURSIVE poll_tool_summary_lines_all_success(_)
poll_tool_summary_lines_all_success(tool_results) ==
  IF tool_results = <<>> THEN ""
  ELSE "- (ok) " \o Head(tool_results).tool_name \o ": Success\n"
       \o poll_tool_summary_lines_all_success(Tail(tool_results))

RECURSIVE poll_tool_summary_lines(_)
poll_tool_summary_lines(tool_results) ==
  IF tool_results = <<>> THEN ""
  ELSE LET tr == Head(tool_results)
       IN (IF "error" \in DOMAIN tr
           THEN "- (x) " \o tr.tool_name \o ": " \o tr.error \o "\n"
           ELSE "- (ok) " \o tr.tool_name \o ": Success\n")
          \o poll_tool_summary_lines(Tail(tool_results))

\* poll, the provider's result is neither None nor pending; tools: what
\* execute_tool_calls returned, output: what process_llm_response returned
commit_polled_turn(agent, llm, result, msgs, tools, output) ==
  LET tool_results == tools.ret
      raw_llm_output == IF Truthy(result.content) THEN result.content ELSE ""
      output_result == output.ret
      processed == IF Truthy(output_result.processed_response)
                   THEN output_result.processed_response ELSE raw_llm_output
      safe_content == IF tool_results # <<>>
                      THEN processed \o "\n\n---\n**Tools Used:**\n"
                                     \o poll_tool_summary_lines(tool_results)
                      ELSE processed
      protegrity_data == IF tool_results # <<>>
                         THEN [output_processing |-> output_result,
                               tool_results |-> tool_results]
                         ELSE [output_processing |-> output_result]
      is_blocked == output_result.should_filter
  IN IF tools.raised
     THEN raised_turn(msgs, <<"execute_tool_calls">>, tools.calls, tools.error)
     ELSE IF output.raised
     THEN raised_turn(msgs,
                      (IF result.tool_calls # <<>> THEN <<"execute_tool_calls">> ELSE <<>>)
                        \o <<"process_llm_response">>,
                      tools.calls \o output.calls, output.error)
     ELSE
     [messages |-> Append(msgs, Message(Len(msgs) + 1, "assistant",
                                        IF is_blocked THEN OUTPUT_BLOCKED_MESSAGE
                                        ELSE safe_content,
                                        protegrity_data, FALSE, is_blocked, agent, llm)),
      ret |-> [assistant_message |-> Len(msgs) + 1, tool_results |-> tool_results,
               status |-> "completed"],
      events |-> (IF result.tool_calls # <<>> THEN <<"execute_tool_calls">> ELSE <<>>)
                 \o <<"process_llm_response", "Message.objects.create">>,
      calls |-> tools.calls \o output.calls]

poll_completed_in_place(agent, llm, result, msgs, catalog, env) ==
  LET raw_llm_output == IF Truthy(result.content) THEN result.content ELSE ""
      output == process_llm_response(raw_llm_output, env.gr_out, env.disc_out, env.disc_out)
      waiting == {i \in 1..Len(msgs) : msgs[i].pending}
      target == CHOOSE i \in waiting : \A j \in waiting : j <= i
      done == Message(Len(msgs) + 1, "assistant", output.ret.processed_response,
                      [output_processing |-> output.ret], FALSE,
                      output.ret.should_filter, agent, llm)
  IN [messages |-> IF waiting = {} THEN Append(msgs, done)
                   ELSE Append([msgs EXCEPT ![target].pending = FALSE], done),
      ret |-> [assistant_message |-> Len(msgs) + 1, tool_results |-> <<>>,
               status |-> "completed"],
      events |-> <<"process_llm_response", "Message.objects.create">>,
      calls |-> output.calls]

poll_completed(agent, llm, result, msgs, catalog, env) ==
  commit_polled_turn(
    agent, llm, result, msgs,
    IF result.tool_calls # <<>>
    THEN execute_tool_calls(agent, result.tool_calls, catalog,
                            [gr |-> env.gr_out, disc |-> env.disc_out])
    ELSE [ret |-> <<>>, calls |-> <<>>, raised |-> FALSE, error |-> ""],
    process_llm_response(IF Truthy(result.content) THEN result.content ELSE "",
                         env.gr_out, env.disc_out, env.disc_out))

poll_not_ready_none_only(result) == result = PollNone

\* whether poll treats the provider's answer as not ready
poll_not_ready(result) == result = PollNone \/ result.status = "pending"

\* env.result: what poll_response answers
poll(c, msgs, catalog, env) ==
  LET r == _resolve_agent_and_llm(c, catalog)
      result == env.result
      done == poll_completed(r.agent, r.llm, result, msgs, catalog, env)
      none == [assistant_message |-> 0, tool_results |-> <<>>]
  IN (IF r.llm = "None"
      THEN [conv |-> r.conv, messages |-> msgs,
            ret |-> none @@ [status |-> "error"],
            events |-> r.events, calls |-> <<>>]
      ELSE IF poll_not_ready(result)
      THEN [conv |-> r.conv, messages |-> msgs,
            ret |-> none @@ [status |-> "pending"],
            events |-> r.events \o <<"get_provider", "poll_response">>, calls |-> <<>>]
      ELSE [conv |-> r.conv]
           @@ [done EXCEPT !.events = r.events \o <<"get_provider", "poll_response">> \o @])
     @@ [raised |-> FALSE, error |-> ""]

\* ------------------------------------------------------------------ bounds

\* no conversation grows beyond this many messages
MaxMessages == 3

\* ----------------------------------------------------------- configuration

Tool(id, tool_type, is_active) == [id |-> id, tool_type |-> tool_type, is_active |-> is_active]

\* agent id -> the agent's default LLM and its tools (agent.tools.all())
Catalog ==
  [a \in {"agent-1", "agent-2"} |->
     IF a = "agent-1"
     THEN [default_llm |-> "llm-1",
           tools |-> {Tool("protegrity-redact", "protegrity", TRUE),
                      Tool("protegrity-classify", "protegrity", FALSE),
                      Tool("web-search", "custom", TRUE)}]
     ELSE [default_llm |-> "None", tools |-> {}]]

Conversation(primary_agent, primary_llm) ==
  [primary_agent |-> primary_agent, primary_llm |-> primary_llm,
   model_id |-> IF primary_llm = "None" THEN "" ELSE primary_llm]

\* -------------------------------------------------- what the environment says

GuardrailOk(score) == [kind |-> "ok", scores |-> <<score>>]

GuardrailDown == [kind |-> "request_exception", scores |-> <<>>]

DiscoveryOk(classifications) == [kind |-> "ok", classifications |-> classifications]

DiscoveryDown == [kind |-> "request_exception", classifications |-> <<>>]

Det(score, start_index, end_index) ==
  [score |-> score, start_index |-> start_index, end_index |-> end_index]

Found(type, dets) == [key |-> type, value |-> dets]

UserTexts == {"id 123"}

Modes == {"redact", "protect", "none"}

GuardrailResponses == {GuardrailOk(10), GuardrailOk(95), GuardrailDown}

OutputGuardrailResponses == {GuardrailOk(10), GuardrailOk(95)}

DiscoveryResponses == {DiscoveryOk(<<>>), DiscoveryOk(<<Found("US_SSN", <<Det(99, 3, 6)>>)>>)}

ToolCall(tool_name, call_id, text) ==
  [tool_name |-> tool_name, call_id |-> call_id, arguments |-> [text |-> text]]

ToolCallLists ==
  {<<>>, <<ToolCall("protegrity-redact", "call_1", "id 123"),
           ToolCall("unregistered", "call_2", "x")>>}

CompletedResults ==
  {ProviderResult("completed", "ok 123", tc) : tc \in ToolCallLists}

PendingResult == ProviderResult("pending", TextNone, <<>>)

SendResults == CompletedResults \cup {PendingResult}

\* poll_response: None when the provider holds no request (a synchronous provider),
\* pending or completed while one is running, and completed again or None after it
\* has answered completed
PollResults(j) ==
  IF j = "none" THEN {PollNone}
  ELSE IF j = "running" THEN CompletedResults \cup {PendingResult}
  ELSE CompletedResults \cup {PollNone}

\* the provider's request after send_message answered result
JobAfterSend(j, events, result) ==
  IF "send_message" \notin {events[i] : i \in 1..Len(events)} THEN j
  ELSE IF result.status = "pending" THEN "running" ELSE "none"

\* the provider's request after poll_response answered result
JobAfterPoll(j, events, result) ==
  IF "poll_response" \notin {events[i] : i \in 1..Len(events)} THEN j
  ELSE IF result.status = "completed" THEN "done" ELSE j

Envs(results) ==
  [gr_in : GuardrailResponses, disc_in : DiscoveryResponses, result : results,
   gr_out : OutputGuardrailResponses, disc_out : DiscoveryResponses]

Range(f) == {f[i] : i \in DOMAIN f}

\* An answer the call never asked for is not enumerated: it stays the first choice.
Consumed(env, h, first_result) ==
  /\ (\A i \in 1..Len(h.calls) : h.calls[i].api # "discovery")
       => env.disc_in = DiscoveryOk(<<>>) /\ env.disc_out = DiscoveryOk(<<>>)
  /\ ("process_full_pipeline" \notin Range(h.events)) => env.gr_in = GuardrailOk(10)
  /\ ("process_llm_response" \notin Range(h.events))
       => env.gr_out = GuardrailOk(10) /\ env.disc_out = DiscoveryOk(<<>>)
  /\ ("process_llm_response" \in Range(h.events)
        /\ "process_full_pipeline" \notin Range(h.events))
       => env.disc_in = DiscoveryOk(<<>>)
  /\ ({"send_message", "poll_response"} \cap Range(h.events) = {})
       => env.result = first_result

\* ------------------------------------------------------------ the two systems

Idle == [op |-> "none"]

NoPipe == [phase |-> "idle"]

Init ==
  /\ agents = Catalog
  /\ conv \in {Conversation("None", "None"), Conversation("agent-2", "None"),
               Conversation("agent-1", "None"), Conversation("agent-1", "llm-2"),
               Conversation("None", "llm-2")}
  /\ messages = <<>>
  /\ job = "none"
  /\ last = Idle
  /\ pipe = NoPipe
  /\ router = NoPipe
  /\ prov = NoPipe
  /\ web = NoPipe

\* The caller saves the user's message, then calls handle_user_message.
HandleUserMessage ==
  /\ Len(messages) + 2 <= MaxMessages
  /\ \E text \in UserTexts, mode \in Modes, env \in Envs(SendResults) :
       \E h \in {handle_user_message(
                    conv,
                    Append(messages, Message(Len(messages) + 1, "user", text, EmptyDict,
                                             FALSE, FALSE, "None", "None")),
                    agents, Len(messages) + 1, mode, env)} :
          /\ Consumed(env, h, PendingResult)
          /\ conv' = h.conv
          /\ messages' = h.messages
          /\ job' = JobAfterSend(job, h.events, env.result)
          /\ last' = [op |-> "handle_user_message",
                      user_message_id |-> Len(messages) + 1,
                      mode |-> mode, env |-> env, ret |-> h.ret,
                      events |-> h.events, calls |-> h.calls, history |-> h.history]
  /\ UNCHANGED <<agents, pipe, router, prov, web>>

Poll ==
  /\ \E env \in Envs(PollResults(job)) :
       \E p \in {poll(conv, messages, agents, env)} :
          /\ Consumed(env, p, CHOOSE r \in PollResults(job) : TRUE)
          /\ Len(p.messages) <= MaxMessages
          /\ conv' = p.conv
          /\ messages' = p.messages
          /\ job' = JobAfterPoll(job, p.events, env.result)
          /\ last' = [op |-> "poll", user_message_id |-> 0, mode |-> "",
                      env |-> env, ret |-> p.ret,
                      events |-> p.events, calls |-> p.calls, history |-> <<>>]
  /\ UNCHANGED <<agents, pipe, router, prov, web>>

Next == HandleUserMessage \/ Poll

Spec == Init /\ [][Next]_vars

\* ------------------------------------------ the agents' defaults are edited

DefaultLLMs == {"llm-1", "llm-3"}

\* an administrator sets another default LLM on the conversation's agent (the
\* other agents' defaults play no part in the conversation)
ChangeDefaultLLM ==
  /\ conv.primary_agent # "None"
  /\ \E l \in DefaultLLMs :
       /\ agents[conv.primary_agent].default_llm # l
       /\ agents' = [agents EXCEPT ![conv.primary_agent].default_llm = l]
  /\ UNCHANGED <<conv, messages, job, last, pipe, router, prov, web>>

AdminNext == HandleUserMessage \/ Poll \/ ChangeDefaultLLM

\* conversations with an agent and no model of their own
AdminInit ==
  /\ agents = Catalog
  /\ conv \in {Conversation("agent-1", "None"), Conversation("agent-2", "None")}
  /\ messages = <<>>
  /\ job = "none"
  /\ last = Idle
  /\ pipe = NoPipe
  /\ router = NoPipe
  /\ prov = NoPipe
  /\ web = NoPipe

SpecAdmin == AdminInit /\ [][AdminNext]_vars

\* ------------------------------------------- a conversation of several turns

\* no conversation of several turns grows beyond this many messages
MaxTurnMessages == 4

TurnEnvs ==
  [gr_in : {GuardrailOk(10)}, disc_in : DiscoveryResponses,
   result : {ProviderResult("completed", "ok 123", <<>>), PendingResult},
   gr_out : {GuardrailOk(10)}, disc_out : {DiscoveryOk(<<>>)}]

\* The caller saves the user's next message, then calls handle_user_message.
NextUserMessage ==
  /\ Len(messages) + 2 <= MaxTurnMessages
  /\ \E text \in UserTexts, mode \in Modes, env \in TurnEnvs :
       \E h \in {handle_user_message(
                    conv,
                    Append(messages, Message(Len(messages) + 1, "user", text, EmptyDict,
                                             FALSE, FALSE, "None", "None")),
                    agents, Len(messages) + 1, mode, env)} :
          /\ Consumed(env, h, PendingResult)
          /\ conv' = h.conv
          /\ messages' = h.messages
          /\ job' = JobAfterSend(job, h.events, env.result)
          /\ last' = [op |-> "handle_user_message",
                      user_message_id |-> Len(messages) + 1,
                      mode |-> mode, env |-> env, ret |-> h.ret,
                      events |-> h.events, calls |-> h.calls, history |-> h.history]
  /\ UNCHANGED <<agents, pipe, router, prov, web>>

TurnsNext == NextUserMessage \/ Poll

SpecTurns == Init /\ [][TurnsNext]_vars

\* ------------------------------------------------------------ the HTTP views

\* LLMProvider rows: llm-1 is open to every user, llm-2 to Protegrity users only,
\* llm-3 is switched off
LLMRows ==
  [l \in {"llm-1", "llm-2", "llm-3"} |->
     IF l = "llm-1" THEN [is_active |-> TRUE, min_role |-> "STANDARD", display_order |-> 1]
     ELSE IF l = "llm-2"
     THEN [is_active |-> TRUE, min_role |-> "PROTEGRITY", display_order |-> 0]
     ELSE [is_active |-> FALSE, min_role |-> "STANDARD", display_order |-> 2]]

\* Agent rows: agent-1 is open to every user and defaults to llm-2, agent-2 is for
\* Protegrity users only, agent-3 is switched off
AgentRows ==
  [a \in {"agent-1", "agent-2", "agent-3"} |->
     IF a = "agent-1"
     THEN [default_llm |-> "llm-2", tools |-> {}, is_active |-> TRUE, min_role |-> "STANDARD"]
     ELSE IF a = "agent-2"
     THEN [default_llm |-> "llm-1", tools |-> {}, is_active |-> TRUE,
           min_role |-> "PROTEGRITY"]
     ELSE [default_llm |-> "None", tools |-> {}, is_active |-> FALSE,
           min_role |-> "STANDARD"]]

\* get_user_role(request.user) of an authenticated user
Roles == {"STANDARD", "PROTEGRITY"}

check_resource_access(role, resource) ==
  IF ~resource.is_active THEN FALSE
  ELSE IF role = "PROTEGRITY" THEN TRUE
  ELSE IF role = "STANDARD" THEN resource.min_role = "STANDARD"
  ELSE FALSE

\* the ids of the rows filter_by_role keeps
filter_by_role(rows, role) ==
  IF role = "PROTEGRITY" THEN {k \in DOMAIN rows : rows[k].is_active}
  ELSE IF role = "STANDARD"
  THEN {k \in DOMAIN rows : rows[k].is_active /\ rows[k].min_role = "STANDARD"}
  ELSE {}

\* the first permitted model by display_order, "None" when there is none
\* (ENABLED_LLM_PROVIDERS is not set: every provider type is enabled)
get_default_llm_for_user(role) ==
  LET qs == filter_by_role(LLMRows, role)
  IN IF qs = {} THEN "None"
     ELSE CHOOSE l \in qs :
            \A m \in qs : LLMRows[l].display_order <= LLMRows[m].display_order

error_response(message, code, http_status) ==
  [status |-> http_status, body |-> [error |-> [code |-> code, message |-> message]]]

JsonResponse(body, http_status) == [status |-> http_status, body |-> body]

\* str.strip() for blanks
RECURSIVE strip(_)
strip(s) ==
  IF Len(s) > 0 /\ SubSeq(s, 1, 1) = " " THEN strip(SubSeq(s, 2, Len(s)))
  ELSE IF Len(s) > 0 /\ SubSeq(s, Len(s), Len(s)) = " "
  THEN strip(SubSeq(s, 1, Len(s) - 1))
  ELSE s

\* the conversation ids the database hands out, in the order it hands them out
ConvIds == <<"c1", "c2">>

\* a conversations row; deleted: deleted_at is not NULL; updated_at counts the saves
\* that write it; job: the request the conversation's provider is holding
ConversationRow(title, model_id, primary_agent, primary_llm) ==
  [created |-> TRUE, title |-> title, model_id |-> model_id,
   primary_agent |-> primary_agent, primary_llm |-> primary_llm,
   updated_at |-> 0, deleted |-> FALSE, messages |-> <<>>, messages_deleted |-> 0,
   job |-> "none"]

\* an id no row has yet
NoRow ==
  [ConversationRow("", "", "None", "None") EXCEPT !.created = FALSE]

\* a lookup by id that also returns soft-deleted rows
active_conversation_with_deleted(rows, conversation_id) ==
  /\ conversation_id \in DOMAIN rows
  /\ rows[conversation_id].created

\* Conversation.objects.filter(id=conversation_id, deleted_at__isnull=True) has a row
active_conversation(rows, conversation_id) ==
  /\ conversation_id \in DOMAIN rows
  /\ rows[conversation_id].created
  /\ ~rows[conversation_id].deleted

\* Conversation.soft_delete
soft_delete(row) ==
  [row EXCEPT !.deleted = TRUE, !.messages_deleted = Len(row.messages)]

conversation_not_found == error_response("Conversation not found", "conversation_not_found", 404)

\* what a view hands back: the rows, the response, and the orchestrator's call if
\* the view made one
NoTurn == [called |-> FALSE]

Turn(conversation_id, r) ==
  [called |-> TRUE, conversation_id |-> conversation_id, status |-> r.ret.status,
   events |-> r.events,
   history |-> IF "history" \in DOMAIN r THEN r.history ELSE <<>>,
   agent |-> r.conv.primary_agent, llm |-> r.conv.primary_llm]

ViewResult(rows, response, turn) == [rows |-> rows, response |-> response, turn |-> turn]

VIEW_BLOCKED_MESSAGE ==
  "This prompt was blocked by security guardrails due to policy violations."

\* message[:50] + ("..." if len(message) > 50 else "")
title_of(message) == Slice(message, 0, 50) \o (IF Len(message) > 50 THEN "..." ELSE "")

\* chat, the conversation exists: the agent and the model the request names replace
\* the conversation's when they are active and permitted, then conversation.save()
chat_update_conversation(row, catalog, role, agent_id, model_id) ==
  LET agent_ok == /\ agent_id \in DOMAIN catalog
                  /\ catalog[agent_id].is_active
                  /\ check_resource_access(role, catalog[agent_id])
      llm_ok == /\ model_id \in DOMAIN LLMRows
                /\ LLMRows[model_id].is_active
                /\ check_resource_access(role, LLMRows[model_id])
  IN [row EXCEPT !.primary_agent = IF agent_ok THEN agent_id ELSE @,
                 !.primary_llm = IF llm_ok THEN model_id ELSE @,
                 !.model_id = IF llm_ok THEN model_id ELSE @,
                 !.updated_at = @ + 1]

Rejected(response) == [error |-> TRUE, response |-> response, row |-> NoRow]

Created(row) == [error |-> FALSE, response |-> JsonResponse(EmptyDict, 200), row |-> row]

\* chat, there is no conversation: the row to create, or the error to return
chat_new_conversation(catalog, role, agent_id, model_id) ==
  LET agent_found == agent_id \in DOMAIN catalog /\ catalog[agent_id].is_active
      llm_found == model_id \in DOMAIN LLMRows /\ LLMRows[model_id].is_active
      from_agent == /\ agent_id # "None"
                    /\ catalog[agent_id].default_llm # "None"
                    /\ check_resource_access(role, LLMRows[catalog[agent_id].default_llm])
      chosen == IF model_id # "None" THEN model_id
                ELSE IF from_agent THEN catalog[agent_id].default_llm
                ELSE get_default_llm_for_user(role)
  IN IF agent_id # "None" /\ ~agent_found
     THEN Rejected(error_response("Invalid agent_id: " \o agent_id, "invalid_agent", 400))
     ELSE IF agent_id # "None" /\ ~check_resource_access(role, catalog[agent_id])
     THEN Rejected(error_response("You are not allowed to use this agent.",
                                  "forbidden_agent", 403))
     ELSE IF model_id # "None" /\ ~llm_found
     THEN Rejected(error_response("Invalid model_id: " \o model_id, "invalid_model", 400))
     ELSE IF model_id # "None" /\ ~check_resource_access(role, LLMRows[model_id])
     THEN Rejected(error_response("You are not allowed to use this model.",
                                  "forbidden_model", 403))
     ELSE IF chosen = "None"
     THEN Rejected(error_response(
            "No LLM providers are available for your account. Please contact an administrator.",
            "no_available_llm", 400))
     ELSE Created(ConversationRow("New chat", chosen, agent_id, chosen))

\* chat, the view's own input pass blocks the prompt; saved: the conversation's
\* messages with the user's message
chat_blocked(rows, conversation_id, row, message, saved, input_processing) ==
  ViewResult(
    [rows EXCEPT ![conversation_id] =
       [row EXCEPT !.messages =
                     Append(saved, Message(Len(saved) + 1, "system", VIEW_BLOCKED_MESSAGE,
                                           [input_processing |-> input_processing],
                                           FALSE, TRUE, "None", "None")),
                   !.title = IF @ = "New chat" THEN title_of(message) ELSE @]],
    JsonResponse([conversation_id |-> conversation_id, status |-> "blocked",
                  messages |-> <<[role |-> "user", content |-> message],
                                 [role |-> "system", content |-> VIEW_BLOCKED_MESSAGE,
                                  blocked |-> TRUE]>>,
                  protegrity_data |-> [input_processing |-> input_processing,
                                       output_processing |-> NoData]], 200),
    NoTurn)

\* the "output_processing" entry of the assistant message's protegrity_data, {} without
output_processing_of(h) ==
  IF h.ret.assistant_message = 0 THEN EmptyDict
  ELSE IF "output_processing" \in DOMAIN h.messages[h.ret.assistant_message].protegrity_data
  THEN h.messages[h.ret.assistant_message].protegrity_data.output_processing
  ELSE EmptyDict

\* the response chat builds from the orchestrator's result
chat_response(conversation_id, message, input_processing, h) ==
  LET status == h.ret.status
      assistant_msg == h.messages[h.ret.assistant_message]
      user == [role |-> "user", content |-> message]
      envelope(shown, tool_results, output_processing) ==
        JsonResponse([conversation_id |-> conversation_id, status |-> status,
                      messages |-> shown, tool_results |-> tool_results,
                      protegrity_data |-> [input_processing |-> input_processing,
                                           output_processing |-> output_processing]], 200)
  IN IF status = "completed"
     THEN envelope(<<user,
                     IF h.ret.assistant_message = 0
                     THEN [role |-> "assistant", content |-> "", agent |-> "None",
                           llm |-> "None"]
                     ELSE [role |-> "assistant", content |-> assistant_msg.content,
                           agent |-> assistant_msg.agent,
                           llm |-> assistant_msg.llm_provider]>>,
                   h.ret.tool_results, output_processing_of(h))
     ELSE IF status = "pending"
     THEN envelope(<<user, [role |-> "assistant", content |-> "", pending |-> TRUE]>>,
                   <<>>, NoData)
     ELSE IF status = "error"
     THEN envelope(<<user,
                     [role |-> "assistant",
                      content |-> IF h.ret.assistant_message = 0
                                  THEN "Error processing request"
                                  ELSE assistant_msg.content]>>,
                   <<>>, output_processing_of(h))
     ELSE JsonResponse([detail |-> "Unexpected orchestrator response"], 500)

\* chat after the orchestrator returned h (or raised: the view catches nothing)
chat_answer(rows, conversation_id, row, message, input_processing, result, h) ==
  IF h.raised
  THEN ViewResult([rows EXCEPT ![conversation_id] = [row EXCEPT !.messages = h.messages]],
                  JsonResponse([detail |-> "Server Error (500)"], 500),
                  Turn(conversation_id, h))
  ELSE ViewResult(
         [rows EXCEPT ![conversation_id] =
            [h.conv EXCEPT !.messages = h.messages,
                           !.title = IF @ = "New chat" THEN title_of(message) ELSE @,
                           !.updated_at = IF "conversation.save" \in Range(h.events)
                                          THEN @ + 1 ELSE @,
                           !.job = JobAfterSend(@, h.events, result)]],
         chat_response(conversation_id, message, input_processing, h),
         Turn(conversation_id, h))

\* chat from the user's message on; row: the conversation, found or created
chat_turn(rows, conversation_id, row, catalog, data, env, input) ==
  LET message == data.message
      user_message_id == Len(row.messages) + 1
      with_user == Append(row.messages,
                          Message(user_message_id, "user", message, EmptyDict,
                                  FALSE, FALSE, "None", "None"))
      screened == data.protegrity_mode # "none"
      saved == IF screened
               THEN [with_user EXCEPT ![user_message_id].protegrity_data =
                                        [input_processing |-> input.ret]]
               ELSE with_user
      input_processing == IF screened THEN input.ret ELSE EmptyDict
  IN IF screened /\ input.raised
     THEN ViewResult([rows EXCEPT ![conversation_id] = [row EXCEPT !.messages = with_user]],
                     JsonResponse([detail |-> "Server Error (500)"], 500), NoTurn)
     ELSE IF screened /\ input.ret.should_block
     THEN chat_blocked(rows, conversation_id, row, message, saved, input.ret)
     ELSE chat_answer(rows, conversation_id, row, message, input_processing, env.result,
                      handle_user_message(row, saved, catalog, user_message_id,
                                          "redact", env))

\* POST /api/chat/; new_id: the id the database gives a conversation created now
chat(rows, catalog, role, data, env, new_id) ==
  LET conversation_id == data.conversation_id
      found == active_conversation(rows, conversation_id)
      updated == chat_update_conversation(rows[conversation_id], catalog, role,
                                          data.agent_id, data.model_id)
      new == chat_new_conversation(catalog, role, data.agent_id, data.model_id)
      input == process_full_pipeline(data.message, data.protegrity_mode,
                                     env.gr_view, env.disc_view, env.disc_view)
  IN IF strip(data.message) = ""
     THEN ViewResult(rows, error_response("Message is required", "message_required", 400),
                     NoTurn)
     ELSE IF found
     THEN chat_turn(rows, conversation_id, updated, catalog, data, env, input)
     ELSE IF new.error
     THEN ViewResult(rows, new.response, NoTurn)
     ELSE chat_turn(rows, new_id, new.row, catalog, data, env, input)

\* orchestrator.poll(conversation) as the rows it leaves
polled_row(row, result, p) ==
  [p.conv EXCEPT !.messages = p.messages,
                 !.updated_at = IF "conversation.save" \in Range(p.events)
                                THEN @ + 1 ELSE @,
                 !.job = JobAfterPoll(@, p.events, result)]

\* poll_conversation, the orchestrator committed an assistant message; output: the
\* view's own process_llm_response of the committed content
poll_conversation_completed(rows, conversation_id, polled, p, output) ==
  LET assistant_msg == p.messages[p.ret.assistant_message]
  IN IF output.raised
     THEN ViewResult([rows EXCEPT ![conversation_id] = polled],
                     JsonResponse([status |-> "error", detail |-> "Unexpected error"], 500),
                     Turn(conversation_id, p))
     ELSE ViewResult([rows EXCEPT ![conversation_id] =
                        [polled EXCEPT !.updated_at = @ + 1]],
                     JsonResponse([status |-> "completed",
                                   response |-> assistant_msg.content,
                                   tool_results |-> p.ret.tool_results,
                                   protegrity_output |-> output.ret,
                                   agent |-> assistant_msg.agent,
                                   llm |-> assistant_msg.llm_provider], 200),
                     Turn(conversation_id, p))

\* poll_conversation after orchestrator.poll returned p
poll_conversation_answer(rows, conversation_id, env, p) ==
  LET polled == polled_row(rows[conversation_id], env.result, p)
  IN IF p.raised
     THEN ViewResult(rows,
                     JsonResponse([status |-> "error", detail |-> "Unexpected error"], 500),
                     Turn(conversation_id, p))
     ELSE IF p.ret.status = "pending"
     THEN ViewResult([rows EXCEPT ![conversation_id] = polled],
                     JsonResponse([status |-> "pending"], 200), Turn(conversation_id, p))
     ELSE IF p.ret.status = "completed" /\ p.ret.assistant_message # 0
     THEN poll_conversation_completed(
            rows, conversation_id, polled, p,
            process_llm_response(
              IF Truthy(p.messages[p.ret.assistant_message].content)
              THEN p.messages[p.ret.assistant_message].content ELSE "",
              env.gr_view, env.disc_view, env.disc_view))
     ELSE ViewResult([rows EXCEPT ![conversation_id] = polled],
                     JsonResponse([status |-> "error",
                                   detail |-> "Failed to get response from orchestrator"],
                                  500),
                     Turn(conversation_id, p))

\* GET /api/chat/poll/<conversation_id>/
poll_conversation(rows, catalog, method, conversation_id, env) ==
  IF method # "GET"
  THEN ViewResult(rows, JsonResponse([detail |-> "Method not allowed"], 405), NoTurn)
  ELSE IF ~active_conversation(rows, conversation_id)
  THEN ViewResult(rows, conversation_not_found, NoTurn)
  ELSE poll_conversation_answer(
         rows, conversation_id, env,
         poll(rows[conversation_id], rows[conversation_id].messages, catalog, env))

\* the messages a serializer shows: those not soft-deleted
shown_messages(row) == SubSeq(row.messages, row.messages_deleted + 1, Len(row.messages))

\* ConversationDetailSerializer(conversation).data
conversation_detail_data(conversation_id, row) ==
  [id |-> conversation_id, title |-> row.title, model_id |-> row.model_id,
   primary_agent |-> row.primary_agent, primary_llm |-> row.primary_llm,
   messages |-> shown_messages(row), updated_at |-> row.updated_at]

\* GET, PATCH, DELETE /api/conversations/<conversation_id>/
conversation_detail(rows, method, conversation_id, data) ==
  LET row == rows[conversation_id]
      patched == [row EXCEPT !.title = data.title, !.updated_at = @ + 1]
  IN IF ~active_conversation(rows, conversation_id)
     THEN ViewResult(rows, conversation_not_found, NoTurn)
     ELSE IF method = "GET"
     THEN ViewResult(rows, JsonResponse(conversation_detail_data(conversation_id, row), 200),
                     NoTurn)
     ELSE IF method = "PATCH"
     THEN IF data.title # ""
          THEN ViewResult([rows EXCEPT ![conversation_id] = patched],
                          JsonResponse(conversation_detail_data(conversation_id, patched),
                                       200),
                          NoTurn)
          ELSE ViewResult(rows, JsonResponse([title |-> "This field may not be blank."], 400),
                          NoTurn)
     ELSE ViewResult([rows EXCEPT ![conversation_id] = soft_delete(row)],
                     JsonResponse(NoData, 204), NoTurn)

MESSAGE_ROLES == {"user", "assistant", "system"}

\* POST /api/conversations/<conversation_id>/messages/
conversation_messages_create(rows, conversation_id, data) ==
  LET row == rows[conversation_id]
      message == Message(Len(row.messages) + 1, data.role, data.content, EmptyDict,
                         FALSE, FALSE, "None", "None")
  IN IF ~active_conversation(rows, conversation_id)
     THEN ViewResult(rows, conversation_not_found, NoTurn)
     ELSE IF data.role \in MESSAGE_ROLES
     THEN ViewResult([rows EXCEPT ![conversation_id] =
                        [row EXCEPT !.messages = Append(@, message),
                                    !.updated_at = @ + 1]],
                     JsonResponse(message, 201), NoTurn)
     ELSE ViewResult(rows, JsonResponse([role |-> "is not a valid choice."], 400), NoTurn)

\* no more than this many messages are stored, all conversations together
MaxStoredMessages == 4

Selection(agent_id, model_id) == [agent_id |-> agent_id, model_id |-> model_id]

\* the agent and the model a chat request names
ChatSelections ==
  {Selection("None", "None"), Selection("None", "llm-1"), Selection("None", "llm-2"),
   Selection("None", "llm-3"), Selection("agent-1", "None"), Selection("agent-2", "None"),
   Selection("agent-3", "None")}

RequestedIds == {"None"} \cup Range(ConvIds)

ChatData(message, conversation_id, selection, protegrity_mode) ==
  [message |-> message, conversation_id |-> conversation_id,
   agent_id |-> selection.agent_id, model_id |-> selection.model_id,
   protegrity_mode |-> protegrity_mode]

ChatRequests ==
  {ChatData(" ", "None", Selection("None", "None"), "redact")}
    \cup {ChatData("id 123", c, s, "redact") : c \in RequestedIds, s \in ChatSelections}
    \cup {ChatData("id 123", c, Selection("None", "None"), "none") : c \in RequestedIds}

ViewCompleted == ProviderResult("completed", "ok 123", <<>>)

ViewSendResults == {ViewCompleted, PendingResult}

ViewPollResults(j) ==
  IF j = "none" THEN {PollNone}
  ELSE IF j = "running" THEN {ViewCompleted, PendingResult}
  ELSE {ViewCompleted, PollNone}

\* gr_view, disc_view: what the backends answer to the view's own calls
ViewEnvs(gr_view, results) ==
  [gr_view : gr_view, disc_view : {DiscoveryOk(<<>>)},
   gr_in : {GuardrailOk(10)}, disc_in : {DiscoveryOk(<<>>)}, result : results,
   gr_out : {GuardrailOk(10)}, disc_out : {DiscoveryOk(<<>>)}]

\* An answer the request never asked for is not enumerated: it stays the first choice.
ViewConsumed(env, rows, v, first_result) ==
  /\ v.rows = rows => env.gr_view = GuardrailOk(10)
  /\ (~v.turn.called \/ {"send_message", "poll_response"} \cap Range(v.turn.events) = {})
       => env.result = first_result

RECURSIVE StoredMessages(_, _)
StoredMessages(rows, i) ==
  IF i = 0 THEN 0 ELSE Len(rows[ConvIds[i]].messages) + StoredMessages(rows, i - 1)

HasFreeId(rows) == \E i \in 1..Len(ConvIds) : ~rows[ConvIds[i]].created

\* the id of the next row
NextId(rows) ==
  IF HasFreeId(rows)
  THEN ConvIds[CHOOSE i \in 1..Len(ConvIds) :
                 /\ ~rows[ConvIds[i]].created
                 /\ \A j \in 1..(i - 1) : rows[ConvIds[j]].created]
  ELSE "None"

NoRequest == [view |-> "none"]

ViewsInit ==
  /\ agents = AgentRows
  /\ conv = Conversation("None", "None")
  /\ messages = <<>>
  /\ job = "none"
  /\ last = Idle
  /\ pipe = NoPipe
  /\ router = NoPipe
  /\ prov = NoPipe
  /\ web = [rows |-> [id \in Range(ConvIds) |-> NoRow], request |-> NoRequest,
            response |-> JsonResponse(NoData, 0), turn |-> NoTurn]

Answered(request, v) ==
  web' = [rows |-> v.rows, request |-> request, response |-> v.response, turn |-> v.turn]

Chat ==
  /\ StoredMessages(web.rows, Len(ConvIds)) + 2 <= MaxStoredMessages
  /\ \E role \in Roles, data \in ChatRequests,
        env \in ViewEnvs({GuardrailOk(10), GuardrailOk(95)}, ViewSendResults) :
       \E v \in {chat(web.rows, agents, role, data, env, NextId(web.rows))} :
          /\ active_conversation(web.rows, data.conversation_id) \/ HasFreeId(web.rows)
          /\ ViewConsumed(env, web.rows, v, PendingResult)
          /\ Answered([view |-> "chat", role |-> role, data |-> data], v)
  /\ UNCHANGED <<agents, conv, messages, job, last, pipe, router, prov>>

PollConversation ==
  /\ \E method \in {"GET", "POST"}, conversation_id \in Range(ConvIds) :
       \E env \in ViewEnvs({GuardrailOk(10)},
                           ViewPollResults(web.rows[conversation_id].job)) :
          \E v \in {poll_conversation(web.rows, agents, method, conversation_id, env)} :
             /\ ViewConsumed(env, web.rows, v,
                             CHOOSE r \in ViewPollResults(web.rows[conversation_id].job) :
                               TRUE)
             /\ StoredMessages(v.rows, Len(ConvIds)) <= MaxStoredMessages
             /\ Answered([view |-> "poll_conversation", method |-> method,
                          conversation_id |-> conversation_id], v)
  /\ UNCHANGED <<agents, conv, messages, job, last, pipe, router, prov>>

ConversationDetail ==
  /\ \E method \in {"GET", "PATCH", "DELETE"}, conversation_id \in Range(ConvIds),
        title \in {"Renamed", ""} :
       \E v \in {conversation_detail(web.rows, method, conversation_id, [title |-> title])} :
          /\ method # "PATCH" => title = ""
          /\ method = "PATCH" => web.rows[conversation_id].title # title
          /\ Answered([view |-> "conversation_detail", method |-> method,
                       conversation_id |-> conversation_id, data |-> [title |-> title]], v)
  /\ UNCHANGED <<agents, conv, messages, job, last, pipe, router, prov>>

ConversationMessagesCreate ==
  /\ StoredMessages(web.rows, Len(ConvIds)) + 1 <= MaxStoredMessages
  /\ \E conversation_id \in Range(ConvIds),
        data \in {[role |-> "user", content |-> "note"],
                  [role |-> "bogus", content |-> "note"]} :
       \E v \in {conversation_messages_create(web.rows, conversation_id, data)} :
          Answered([view |-> "conversation_messages_create",
                    conversation_id |-> conversation_id, data |-> data], v)
  /\ UNCHANGED <<agents, conv, messages, job, last, pipe, router, prov>>

ViewsNext == Chat \/ PollConversation \/ ConversationDetail \/ ConversationMessagesCreate

SpecViews == ViewsInit /\ [][ViewsNext]_vars

\* ------------------------------------------- chat requests in every safety mode

\* the backends answer the view's calls and the orchestrator's calls alike
ModeEnvs ==
  {env \in [gr_view : {GuardrailOk(10), GuardrailOk(95)}, disc_view : DiscoveryResponses,
            gr_in : {GuardrailOk(10), GuardrailOk(95)}, disc_in : DiscoveryResponses,
            result : ViewSendResults,
            gr_out : {GuardrailOk(10)}, disc_out : {DiscoveryOk(<<>>)}] :
     /\ env.gr_view = env.gr_in
     /\ env.disc_view = env.disc_in
     /\ env.gr_in = GuardrailOk(95) => env.disc_in = DiscoveryOk(<<>>)}

ChatInMode ==
  /\ StoredMessages(web.rows, Len(ConvIds)) + 2 <= MaxStoredMessages
  /\ \E role \in Roles, conversation_id \in RequestedIds, mode \in Modes,
        env \in ModeEnvs :
       \E data \in {ChatData("id 123", conversation_id, Selection("None", "None"), mode)} :
          \E v \in {chat(web.rows, agents, role, data, env, NextId(web.rows))} :
             /\ active_conversation(web.rows, conversation_id) \/ HasFreeId(web.rows)
             /\ Answered([view |-> "chat", role |-> role, data |-> data], v)
  /\ UNCHANGED <<agents, conv, messages, job, last, pipe, router, prov>>

SpecModes == ViewsInit /\ [][ChatInMode]_vars

\* ------------------------------------- a provider outside the shipped adapters

\* BaseLLMProvider is open to other implementations, and ProviderResult stores the
\* tool_calls it is given unchecked: an entry may be something else than a dict
\* (here the bare tool name, a str).
MalformedCall == [str |-> "protegrity-redact"]

UncheckedToolCallLists ==
  ToolCallLists
    \cup {<<MalformedCall>>,
          <<ToolCall("protegrity-redact", "call_1", "id 123"), MalformedCall>>}

UncheckedCompletedResults ==
  {ProviderResult("completed", "ok 123", tc) : tc \in UncheckedToolCallLists}

UncheckedSendResults == UncheckedCompletedResults \cup {PendingResult}

UncheckedPollResults(j) ==
  IF j = "none" THEN {PollNone}
  ELSE IF j = "running" THEN UncheckedCompletedResults \cup {PendingResult}
  ELSE UncheckedCompletedResults \cup {PollNone}

\* The view saves the user's message and calls handle_user_message without a
\* try: an exception of the handler ends the request, the saved message stays.
HandleUserMessageUnchecked ==
  /\ Len(messages) + 2 <= MaxMessages
  /\ \E text \in UserTexts, mode \in Modes, env \in Envs(UncheckedSendResults) :
       \E h \in {handle_user_message(
                    conv,
                    Append(messages, Message(Len(messages) + 1, "user", text, EmptyDict,
                                             FALSE, FALSE, "None", "None")),
                    agents, Len(messages) + 1, mode, env)} :
          /\ Consumed(env, h, PendingResult)
          /\ conv' = h.conv
          /\ messages' = h.messages
          /\ job' = JobAfterSend(job, h.events, env.result)
          /\ last' = [op |-> "handle_user_message",
                      user_message_id |-> Len(messages) + 1,
                      mode |-> mode, env |-> env, ret |-> h.ret,
                      events |-> h.events, calls |-> h.calls, history |-> h.history]
  /\ UNCHANGED <<agents, pipe, router, prov, web>>

PollUnchecked ==
  /\ \E env \in Envs(UncheckedPollResults(job)) :
       \E p \in {poll(conv, messages, agents, env)} :
          /\ Consumed(env, p, CHOOSE r \in UncheckedPollResults(job) : TRUE)
          /\ Len(p.messages) <= MaxMessages
          /\ conv' = p.conv
          /\ messages' = p.messages
          /\ job' = JobAfterPoll(job, p.events, env.result)
          /\ last' = [op |-> "poll", user_message_id |-> 0, mode |-> "",
                      env |-> env, ret |-> p.ret,
                      events |-> p.events, calls |-> p.calls, history |-> <<>>]
  /\ UNCHANGED <<agents, pipe, router, prov, web>>

UncheckedNext == HandleUserMessageUnchecked \/ PollUnchecked

SpecUnchecked == Init /\ [][UncheckedNext]_vars

\* The tool router alone, on every agent, batch of calls and backend answer below.

\* no batch holds more than this many tool calls
MaxCalls == 3

\* the catalog with a third agent that holds every kind of tool
RouterCatalog ==
  [a \in {"agent-1", "agent-2", "agent-3"} |->
     IF a = "agent-3"
     THEN [default_llm |-> "llm-1",
           tools |-> {Tool("protegrity-redact", "protegrity", TRUE),
                      Tool("protegrity-classify", "protegrity", TRUE),
                      Tool("protegrity-guardrails", "protegrity", TRUE),
                      Tool("protegrity-protect", "protegrity", TRUE),
                      Tool("protegrity-unprotect", "protegrity", TRUE),
                      Tool("protegrity-unknown", "protegrity", TRUE),
                      Tool("protegrity-retired", "protegrity", FALSE),
                      Tool("web-search", "custom", TRUE)}]
     ELSE Catalog[a]]

RouterAgents == {"None", "agent-1", "agent-3"}

RouterCalls ==
  {ToolCall("protegrity-redact", "call_1", "id 123"),
   ToolCall("protegrity-classify", "call_2", "id 123"),
   ToolCall("protegrity-unknown", "call_3", "x"),
   ToolCall("protegrity-unprotect", "call_4", "x"),
   ToolCall("unregistered", "call_5", "x"),
   ToolCall("web-search", "call_6", "x"),
   [tool_name |-> "protegrity-guardrails", arguments |-> [text |-> "x"]],
   [tool_name |-> "protegrity-retired", call_id |-> "call_8"]}

RECURSIVE Batches(_)
Batches(n) ==
  IF n = 0 THEN {<<>>}
  ELSE Batches(n - 1)
       \cup {Append(b, c) : b \in {x \in Batches(n - 1) : Len(x) = n - 1}, c \in RouterCalls}

RouterDiscoveryResponses ==
  {DiscoveryOk(<<Found("US_SSN", <<Det(99, 3, 6)>>)>>),
   DiscoveryOk(<<Found("US_SSN", <<[start_index |-> 3, end_index |-> 6]>>)>>)}

RouterInit ==
  /\ agents = RouterCatalog
  /\ conv = Conversation("None", "None")
  /\ messages = <<>>
  /\ job = "none"
  /\ last = Idle
  /\ pipe = NoPipe
  /\ router = NoPipe
  /\ prov = NoPipe
  /\ web = NoPipe

RunToolCalls ==
  /\ router.phase = "idle"
  /\ \E agent \in RouterAgents, tool_calls \in Batches(MaxCalls),
        disc \in RouterDiscoveryResponses :
       router' = [phase |-> "execute_tool_calls", agent |-> agent,
                  tool_calls |-> tool_calls, disc |-> disc,
                  out |-> execute_tool_calls(agent, tool_calls, agents,
                                             [gr |-> GuardrailOk(10), disc |-> disc])]
  /\ UNCHANGED <<agents, conv, messages, job, last, pipe, prov, web>>

RouterNext == RunToolCalls

SpecRouter == RouterInit /\ [][RouterNext]_vars

\* ---------------------------------------------------------------- providers

\* stands for the warning sign every adapter puts in front of its warnings
WARN == "[!] "

Warning(text) == WARN \o text

LLM(id, provider_type) == [id |-> id, name |-> id, provider_type |-> provider_type]

\* get_provider(None)
LLMNone == [id |-> "None"]

\* the SimpleNamespace get_provider makes up when it is given None
DummyLLM == [id |-> "dummy", name |-> "Dummy LLM", provider_type |-> "custom"]

Provider(cls, llm_provider) == [cls |-> cls, llm_provider |-> llm_provider]

DummyProvider(llm_provider) == Provider("DummyProvider", llm_provider)

\* the import and the constructor without the try around them
construct_unguarded(cls, llm_provider, init) ==
  [raised |-> init # "ok", provider |-> Provider(cls, llm_provider)]

\* try: import the adapter and construct it; except Exception: DummyProvider.
\* init: "ok", or the exception the import or the constructor raises
construct(cls, llm_provider, init) ==
  [raised |-> FALSE,
   provider |-> IF init = "ok" THEN Provider(cls, llm_provider)
                ELSE DummyProvider(llm_provider)]

get_provider(llm_provider, init) ==
  IF llm_provider = LLMNone
  THEN [raised |-> FALSE, provider |-> DummyProvider(DummyLLM)]
  ELSE CASE llm_provider.provider_type = "azure"
              -> construct("AzureOpenAIProvider", llm_provider, init)
         [] llm_provider.provider_type = "bedrock"
              -> construct("BedrockClaudeProvider", llm_provider, init)
         [] llm_provider.provider_type = "openai"
              -> construct("OpenAIProvider", llm_provider, init)
         [] llm_provider.provider_type = "anthropic"
              -> construct("AnthropicProvider", llm_provider, init)
         [] OTHER -> [raised |-> FALSE, provider |-> DummyProvider(llm_provider)]

\* what send_message hands back: a ProviderResult, or the exception that left it
Sent(result) == [raised |-> FALSE, error |-> "", result |-> result]

SendRaised(error) == [raised |-> TRUE, error |-> error, result |-> PollNone]

\* a built request part, or the exception building it raised
Built == [raised |-> FALSE, error |-> ""]

BuildRaised(error) == [raised |-> TRUE, error |-> error]

\* agent.tools.filter(is_active=True) is agent.tools here: the function_schema of
\* every active tool, a dict or (the JSONField takes any JSON value) a str
HasTools(agent) == agent.id # "None" /\ agent.tools # <<>>

\* OpenAI: dict(tool.function_schema or {})
openai_build_tools(agent) ==
  IF HasTools(agent) /\ \E i \in 1..Len(agent.tools) : ~IsDict(agent.tools[i])
  THEN BuildRaised("dictionary update sequence element #0 has length 1; 2 is required")
  ELSE Built

\* Anthropic: schema = tool.function_schema or {}; schema.get("parameters", ...)
anthropic_build_tools(agent) ==
  IF HasTools(agent) /\ \E i \in 1..Len(agent.tools) : ~IsDict(agent.tools[i])
  THEN BuildRaised("'str' object has no attribute 'get'")
  ELSE Built

\* api: what the backend does with the request, "ok", "rate_limit", "timeout",
\* "api_error", or "malformed" for a 200 answer that cannot be parsed
openai_send_message(agent, api) ==
  LET tools == openai_build_tools(agent)
  IN IF tools.raised
     THEN Sent(ProviderResult("completed", Warning("Unexpected error: " \o tools.error), <<>>))
     ELSE CASE api = "ok" -> Sent(ProviderResult("completed", "ok 123", <<>>))
            [] api = "rate_limit"
                 -> Sent(ProviderResult("completed",
                      Warning("Rate limit exceeded. Please try again in a moment."), <<>>))
            [] api = "timeout"
                 -> Sent(ProviderResult("completed",
                      Warning("Request timed out. Please try again."), <<>>))
            [] api = "api_error"
                 -> Sent(ProviderResult("completed", Warning("API error: 500"), <<>>))
            [] OTHER
                 -> Sent(ProviderResult("completed",
                      Warning("Unexpected error: list index out of range"), <<>>))

\* Azure: the whole body is in the try, function_schema goes into the request as it is
azure_send_message(agent, api) ==
  CASE api = "ok" -> Sent(ProviderResult("completed", "ok 123", <<>>))
    [] api = "rate_limit"
         -> Sent(ProviderResult("completed",
              Warning("Rate limit exceeded. Please try again in a moment."), <<>>))
    [] api = "timeout"
         -> Sent(ProviderResult("completed",
              Warning("Request timed out. Please try again."), <<>>))
    [] api = "api_error"
         -> Sent(ProviderResult("completed", Warning("API error: 500"), <<>>))
    [] OTHER
         -> Sent(ProviderResult("completed",
              Warning("Unexpected error: list index out of range"), <<>>))

\* Anthropic: headers, payload and tools are built before the try
anthropic_send_message(agent, api) ==
  LET tools == anthropic_build_tools(agent)
  IN IF tools.raised THEN SendRaised(tools.error)
     ELSE CASE api = "ok" -> Sent(ProviderResult("completed", "ok 123", <<>>))
            [] api = "timeout"
                 -> Sent(ProviderResult("completed",
                      Warning("Request timed out. Please try again."), <<>>))
            [] api \in {"rate_limit", "api_error"}
                 -> Sent(ProviderResult("completed",
                      Warning("API error: " \o (IF api = "rate_limit" THEN "429" ELSE "500")),
                      <<>>))
            [] OTHER
                 -> Sent(ProviderResult("completed",
                      Warning("Unexpected error: Expecting value"), <<>>))

\* Bedrock: the request body is built before the try, from the messages alone
bedrock_send_message(agent, api) ==
  CASE api = "ok" -> Sent(ProviderResult("completed", "ok 123", <<>>))
    [] api \in {"rate_limit", "api_error"}
         -> Sent(ProviderResult("completed",
              Warning("Bedrock API error: " \o (IF api = "rate_limit" THEN "429" ELSE "500")),
              <<>>))
    [] api = "timeout"
         -> Sent(ProviderResult("completed", Warning("Bedrock runtime error: timeout"), <<>>))
    [] OTHER
         -> Sent(ProviderResult("completed",
              Warning("Unexpected error: Expecting value"), <<>>))

\* DummyProvider: no backend is called
dummy_send_message(agent, api) ==
  Sent(ProviderResult("completed",
                      "Dummy Response from "
                        \o (IF agent.id # "None" THEN agent.name ELSE "Default Agent"),
                      <<>>))

send_message(provider, agent, api) ==
  CASE provider.cls = "OpenAIProvider" -> openai_send_message(agent, api)
    [] provider.cls = "AzureOpenAIProvider" -> azure_send_message(agent, api)
    [] provider.cls = "AnthropicProvider" -> anthropic_send_message(agent, api)
    [] provider.cls = "BedrockClaudeProvider" -> bedrock_send_message(agent, api)
    [] OTHER -> dummy_send_message(agent, api)

LLMProviders ==
  {LLMNone} \cup {LLM("llm-" \o t, t) :
                    t \in {"azure", "bedrock", "openai", "anthropic", "intercom", "custom"}}

\* how the import and the constructor of the adapter end: a missing package, a
\* missing environment variable
Inits == {"ok", "ImportError", "ValueError"}

SchemaDict == [description |-> "redact", parameters |-> [type |-> "object"]]

SchemaStr == [str |-> "redact the text"]

ProviderAgent(id, tools) == [id |-> id, name |-> id, tools |-> tools]

ProviderAgents ==
  {ProviderAgent("None", <<>>), ProviderAgent("agent-2", <<>>),
   ProviderAgent("agent-1", <<SchemaDict>>),
   ProviderAgent("agent-4", <<SchemaDict, SchemaStr>>)}

ApiAnswers == {"ok", "rate_limit", "timeout", "api_error", "malformed"}

ProviderInit ==
  /\ agents = Catalog
  /\ conv = Conversation("None", "None")
  /\ messages = <<>>
  /\ job = "none"
  /\ last = Idle
  /\ pipe = NoPipe
  /\ router = NoPipe
  /\ prov = NoPipe
  /\ web = NoPipe

GetProvider ==
  /\ \E llm_provider \in LLMProviders, init \in Inits :
       prov' = [phase |-> "get_provider", llm_provider |-> llm_provider, init |-> init,
                out |-> get_provider(llm_provider, init)]
  /\ UNCHANGED <<agents, conv, messages, job, last, pipe, router, web>>

SendMessage ==
  /\ prov.phase # "idle"
  /\ ~prov.out.raised
  /\ \E agent \in ProviderAgents, api \in ApiAnswers :
       prov' = [phase |-> "send_message", llm_provider |-> prov.llm_provider,
                init |-> prov.init, out |-> prov.out, agent |-> agent, api |-> api,
                sent |-> send_message(prov.out.provider, agent, api)]
  /\ UNCHANGED <<agents, conv, messages, job, last, pipe, router, web>>

ProviderNext == GetProvider \/ SendMessage

SpecProvider == ProviderInit /\ [][ProviderNext]_vars

\* The safety pipeline alone, on every text, mode and backend answer of the sets below.

PipeTexts == {"id 123", "a@b 42"}

PipeModes == {"redact", "protect", "none"}

PipeGuardrailResponses ==
  {GuardrailOk(0), GuardrailOk(80), GuardrailOk(81), GuardrailOk(95),
   [kind |-> "ok", scores |-> <<>>], [kind |-> "http_error", scores |-> <<>>],
   GuardrailDown}

\* a non-200 answer of the discovery backend
DiscoveryHttpError == [kind |-> "http_error", classifications |-> <<>>]

\* a 200 answer with a detection that carries no score
DiscoveryMalformed ==
  DiscoveryOk(<<Found("US_SSN", <<[start_index |-> 3, end_index |-> 6]>>)>>)

\* the same digits classified under two entity types
DiscoverySameSpan ==
  DiscoveryOk(<<Found("US_SSN", <<Det(99, 3, 6)>>),
                Found("PHONE_NUMBER", <<Det(70, 3, 6)>>)>>)

\* a detection inside another one
DiscoveryNested ==
  DiscoveryOk(<<Found("PERSON", <<Det(70, 0, 6)>>),
                Found("US_SSN", <<Det(99, 3, 6)>>)>>)

PipeDiscoveryResponses ==
  {DiscoveryDown, DiscoveryHttpError, DiscoveryMalformed, DiscoveryOk(<<>>),
   DiscoveryOk(<<Found("US_SSN", <<Det(99, 3, 6)>>)>>),
   DiscoveryOk(<<Found("EMAIL_ADDRESS", <<Det(90, 0, 3)>>),
                 Found("US_SSN", <<Det(99, 4, 6)>>)>>),
   DiscoverySameSpan, DiscoveryNested}

PipeInit ==
  /\ agents = Catalog
  /\ conv = Conversation("None", "None")
  /\ messages = <<>>
  /\ job = "none"
  /\ last = Idle
  /\ pipe = NoPipe
  /\ router = NoPipe
  /\ prov = NoPipe
  /\ web = NoPipe

RunFullPipeline ==
  /\ pipe.phase = "idle"
  /\ \E text \in PipeTexts, mode \in PipeModes, gr \in PipeGuardrailResponses,
        d1 \in PipeDiscoveryResponses, d2 \in PipeDiscoveryResponses :
       pipe' = [phase |-> "process_full_pipeline", text |-> text, mode |-> mode,
                gr |-> gr, d1 |-> d1, d2 |-> d2,
                out |-> process_full_pipeline(text, mode, gr, d1, d2)]
  /\ UNCHANGED <<agents, conv, messages, job, last, router, prov, web>>

RunResponsePipeline ==
  /\ pipe.phase = "idle"
  /\ \E text \in PipeTexts, gr \in PipeGuardrailResponses,
        d1 \in PipeDiscoveryResponses, d2 \in PipeDiscoveryResponses :
       pipe' = [phase |-> "process_llm_response", text |-> text, mode |-> "redact",
                gr |-> gr, d1 |-> d1, d2 |-> d2,
                out |-> process_llm_response(text, gr, d1, d2)]
  /\ UNCHANGED <<agents, conv, messages, job, last, router, prov, web>>

PipeNext == RunFullPipeline \/ RunResponsePipeline

SpecPipeline == PipeInit /\ [][PipeNext]_vars

\* ------------------------------------------- the adapters' tool call arguments

\* json.loads on the argument payloads a model can produce: [raised, value]
json_loads(raw) ==
  CASE raw = "{\"text\": \"id 123\"}" -> [raised |-> FALSE, value |-> [text |-> "id 123"]]
    [] raw = "{}" -> [raised |-> FALSE, value |-> EmptyDict]
    [] raw = "\"id 123\"" -> [raised |-> FALSE, value |-> [str |-> "id 123"]]
    [] raw = "[\"id 123\"]" -> [raised |-> FALSE, value |-> [list |-> <<"id 123">>]]
    [] OTHER -> [raised |-> TRUE, value |-> NoData]

\* OpenAIProvider._parse_tool_calls for one tool call of the response
openai_parse_tool_call(name, id, arguments) ==
  LET raw_args == IF arguments = "" THEN "{}" ELSE arguments
      parsed == json_loads(raw_args)
  IN [tool_name |-> name,
      arguments |-> IF parsed.raised THEN EmptyDict ELSE parsed.value,
      call_id |-> id]

\* AzureOpenAIProvider._parse_tool_calls for one tool call of the response
azure_parse_tool_call(name, id, arguments) ==
  [tool_name |-> name, arguments |-> [str |-> arguments], call_id |-> id]

\* AnthropicProvider._parse_response for one tool_use block; input is decoded JSON
anthropic_parse_tool_call(name, id, input) ==
  [tool_name |-> name,
   arguments |-> IF input \in {NoData, EmptyDict} THEN EmptyDict ELSE input,
   call_id |-> id]

\* DummyProvider.send_message: the arguments are built from the user's text
dummy_tool_call(name, id, user_text) ==
  [tool_name |-> name, arguments |-> [text |-> user_text], call_id |-> id]

\* the payloads of function.arguments: an object, nothing, cut-off JSON, a JSON
\* string, a JSON list
ArgumentPayloads ==
  {"{\"text\": \"id 123\"}", "", "{\"text\": \"id 1", "\"id 123\"", "[\"id 123\"]"}

\* the tool calls an adapter hands over, with the payload each was parsed from
AdapterCalls(name) ==
  {[adapter |-> "openai", raw |-> a, call |-> openai_parse_tool_call(name, "call_1", a)] :
     a \in ArgumentPayloads}
  \cup {[adapter |-> "azure", raw |-> a, call |-> azure_parse_tool_call(name, "call_1", a)] :
          a \in ArgumentPayloads}
  \cup {[adapter |-> "anthropic", raw |-> "{\"text\": \"id 123\"}",
         call |-> anthropic_parse_tool_call(name, "call_1", [text |-> "id 123"])],
        [adapter |-> "anthropic", raw |-> "",
         call |-> anthropic_parse_tool_call(name, "call_1", NoData)],
        [adapter |-> "dummy", raw |-> "{\"text\": \"id 123\"}",
         call |-> dummy_tool_call(name, "call_1", "id 123")]}

AdapterToolNames ==
  {"protegrity-redact", "protegrity-classify", "protegrity-guardrails", "web-search",
   "unregistered"}

\* an adapter parses a tool call of the model's response and the router executes it
ParseAndRunToolCall ==
  /\ \E agent \in RouterAgents, name \in AdapterToolNames,
        disc \in RouterDiscoveryResponses :
       \E parsed \in AdapterCalls(name) :
          router' = [phase |-> "parsed", agent |-> agent, adapter |-> parsed.adapter,
                     raw |-> parsed.raw, tool_calls |-> <<parsed.call>>, disc |-> disc,
                     out |-> execute_tool_calls(agent, <<parsed.call>>, agents,
                                                [gr |-> GuardrailOk(10), disc |-> disc])]
  /\ UNCHANGED <<agents, conv, messages, job, last, pipe, prov, web>>

SpecArguments == RouterInit /\ [][ParseAndRunToolCall]_vars

\* ------------------------------------------------------------ redaction alone

\* the most detections the discovery backend reports for one entity type
MaxDetections == 2

RedactTexts == {"id 123", "a@b 42"}

RedactTypes == {"US_SSN", "SOCIAL_SECURITY_NUMBER", "EMAIL_ADDRESS"}

RedactDetections == {Det(90, 0, 2), Det(90, 3, 6), Det(90, 0, 3), Det(90, 4, 6), Det(90, 2, 3)}

\* the detections of one type, in every order
DetectionLists ==
  UNION {[1..n -> RedactDetections] : n \in 1..MaxDetections}

\* the backend's answers with one or two entity types, in every order
RedactDiscoveryResponses ==
  {DiscoveryOk(<<Found(t, ds)>>) : t \in RedactTypes, ds \in DetectionLists}
  \cup {DiscoveryOk(<<Found(t[1], ds[1]), Found(t[2], ds[2])>>) :
          t \in {u \in RedactTypes \X RedactTypes : u[1] # u[2]},
          ds \in DetectionLists \X DetectionLists}

RunRedactData ==
  /\ pipe.phase = "idle"
  /\ \E text \in RedactTexts, d1 \in RedactDiscoveryResponses :
       pipe' = [phase |-> "redact_data", text |-> text, d1 |-> d1,
                out |-> redact_data(text, d1)]
  /\ UNCHANGED <<agents, conv, messages, job, last, router, prov, web>>

SpecRedact == PipeInit /\ [][RunRedactData]_vars

\* ------------------------------------------------- the shared safety service

\* the most calls of get_protegrity_service one thread makes
MaxServiceCalls == 2

Threads == {"t1", "t2"}

\* service: the module's _protegrity_service, 0 for None, else the number of the
\* instance; constructed: how many times ProtegrityService() has run; pc, made, got:
\* each thread's position in get_protegrity_service, the instance it constructed and
\* the instances its calls returned
ServiceInit ==
  /\ agents = Catalog
  /\ conv = Conversation("None", "None")
  /\ messages = <<>>
  /\ job = "none"
  /\ last = Idle
  /\ pipe = [phase |-> "get_protegrity_service", service |-> 0, constructed |-> 0,
             pc |-> [t \in Threads |-> "idle"], made |-> [t \in Threads |-> 0],
             got |-> [t \in Threads |-> <<>>]]
  /\ router = NoPipe
  /\ prov = NoPipe
  /\ web = NoPipe

\* a thread calls get_protegrity_service
GetServiceCall ==
  /\ \E t \in Threads :
       /\ pipe.pc[t] = "idle"
       /\ Len(pipe.got[t]) < MaxServiceCalls
       /\ pipe' = [pipe EXCEPT !.pc[t] = "test"]
  /\ UNCHANGED <<agents, conv, messages, job, last, router, prov, web>>

\* if _protegrity_service is None
GetServiceTest ==
  /\ \E t \in Threads :
       /\ pipe.pc[t] = "test"
       /\ pipe' = [pipe EXCEPT !.pc[t] = IF pipe.service = 0 THEN "construct"
                                          ELSE "return"]
  /\ UNCHANGED <<agents, conv, messages, job, last, router, prov, web>>

\* ProtegrityService()
GetServiceConstruct ==
  /\ \E t \in Threads :
       /\ pipe.pc[t] = "construct"
       /\ pipe' = [pipe EXCEPT !.constructed = @ + 1, !.made[t] = pipe.constructed + 1,
                               !.pc[t] = "store"]
  /\ UNCHANGED <<agents, conv, messages, job, last, router, prov, web>>

\* _protegrity_service = the instance constructed
GetServiceStore ==
  /\ \E t \in Threads :
       /\ pipe.pc[t] = "store"
       /\ pipe' = [pipe EXCEPT !.service = pipe.made[t], !.pc[t] = "return"]
  /\ UNCHANGED <<agents, conv, messages, job, last, router, prov, web>>

\* return _protegrity_service
GetServiceReturn ==
  /\ \E t \in Threads :
       /\ pipe.pc[t] = "return"
       /\ pipe' = [pipe EXCEPT !.got[t] = Append(@, pipe.service), !.pc[t] = "idle"]
  /\ UNCHANGED <<agents, conv, messages, job, last, router, prov, web>>

ServiceNext ==
  \/ GetServiceCall
  \/ GetServiceTest
  \/ GetServiceConstruct
  \/ GetServiceStore
  \/ GetServiceReturn

SpecService == ServiceInit /\ [][ServiceNext]_vars

\* ------------------------------------------------------------------ claims

\* C4: process_full_pipeline returns should_block = true exactly when the guardrail
\* check's outcome is "rejected"; then processed_text is None and the discovery
\* backend has not been called during the call.
C4_BlockedIffRejected ==
  pipe.phase = "process_full_pipeline" =>
    LET verdict == check_guardrails(pipe.text, "user_to_ai", pipe.gr).ret.outcome
    IN /\ pipe.out.ret.should_block <=> (verdict = "rejected")
       /\ pipe.out.ret.should_block =>
            /\ pipe.out.ret.processed_text = TextNone
            /\ pipe.out.ret.discovery = <<>>
            /\ \A i \in 1..Len(pipe.out.calls) : pipe.out.calls[i].api # "discovery"

C4_Witness ==
  /\ pipe.phase = "process_full_pipeline"
  /\ pipe.gr = GuardrailOk(95)
  /\ pipe.out.ret.should_block
  /\ pipe.d1 # DiscoveryDown

\* What the last call was, for the formulas below.

AfterHandle == last.op = "handle_user_message"

AfterPoll == last.op = "poll"

Did(event) == \E i \in 1..Len(last.events) : last.events[i] = event

Count(events, event) == Cardinality({i \in 1..Len(events) : events[i] = event})

\* the user message of the last handle_user_message, as stored
UserMessage == messages[last.user_message_id]

InputResult == UserMessage.protegrity_data.input_processing

\* the assistant message the last call returned
Returned == messages[last.ret.assistant_message]

\* C1: when the input pass returns should_block = true, handle_user_message commits
\* exactly one assistant message with the fixed refusal text, blocked and not pending,
\* returns status "blocked" with no tool results, and neither obtains a provider nor
\* calls send_message.
C1_BlockedInputTurn ==
  (AfterHandle /\ InputResult.should_block) =>
    /\ last.ret.status = "blocked"
    /\ last.ret.tool_results = <<>>
    /\ Len(messages) = last.user_message_id + 1
    /\ last.ret.assistant_message = Len(messages)
    /\ Count(last.events, "Message.objects.create") = 1
    /\ Returned.role = "assistant"
    /\ Returned.content = INPUT_BLOCKED_MESSAGE
    /\ Returned.blocked
    /\ ~Returned.pending
    /\ ~Did("get_provider")
    /\ ~Did("send_message")
    /\ last.history = <<>>

C1_Witness ==
  /\ AfterHandle
  /\ InputResult.should_block
  /\ conv.primary_llm # "None"

\* C2: in every handle_user_message that reaches the provider, the history passed to
\* send_message holds the current user turn with the input pass's processed text as
\* its content, whenever that text is non-empty; the stored message keeps the original.
C2_ProviderGetsProcessedText ==
  (AfterHandle /\ Did("send_message") /\ Truthy(InputResult.processed_text)) =>
    /\ Cardinality({i \in 1..Len(last.history) :
                      last.history[i].id = last.user_message_id}) = 1
    /\ \A i \in 1..Len(last.history) :
         last.history[i].id = last.user_message_id =>
           last.history[i].content = InputResult.processed_text
    /\ UserMessage.content = InputResult.original_text

C2_Witness ==
  /\ AfterHandle
  /\ Did("send_message")
  /\ Truthy(InputResult.processed_text)
  /\ InputResult.processed_text # UserMessage.content
  /\ last.history[last.user_message_id].content = "id [SSN]"

Before(events, first, second) ==
  \A i \in 1..Len(events) :
    events[i] = second => \E j \in 1..(i - 1) : events[j] = first

\* C3: the input safety result is computed and saved on the user message before
\* send_message is called (the rows read for the history already carry it), and the
\* output safety pass has returned before the assistant message of a completed result
\* is created (the message carries its result), in handle_user_message and in poll.
C3_SafetyBeforeProviderAndCommit ==
  /\ (AfterHandle /\ Did("send_message")) =>
       /\ Before(last.events, "process_full_pipeline", "user_message.save")
       /\ Before(last.events, "user_message.save", "send_message")
       /\ last.history[last.user_message_id].protegrity_data
            = [input_processing |-> InputResult]
       /\ \E i \in 1..Len(last.calls) :
            last.calls[i] = Call("guardrails", "user_to_ai", UserMessage.content)
  /\ ((AfterHandle \/ AfterPoll) /\ last.ret.status = "completed") =>
       /\ Before(last.events, "process_llm_response", "Message.objects.create")
       /\ Count(last.events, "process_llm_response") = 1
       /\ "output_processing" \in DOMAIN Returned.protegrity_data
       /\ Returned.protegrity_data.output_processing.original_response
            = last.env.result.content
       /\ \E i \in 1..Len(last.calls) :
            last.calls[i] = Call("guardrails", "ai_to_user", last.env.result.content)

C3_Witness ==
  /\ AfterPoll
  /\ last.ret.status = "completed"
  /\ \E i \in 1..Len(messages) : messages[i].role = "user"

\* C5: when the output pass of a completed result returns should_filter = true, the
\* committed assistant message is blocked and its content is exactly the fixed policy
\* message, with or without tool results, in handle_user_message and in poll.
C5_FilteredOutputIsReplaced ==
  ((AfterHandle \/ AfterPoll) /\ last.ret.status = "completed"
      /\ Returned.protegrity_data.output_processing.should_filter) =>
    /\ Returned.blocked
    /\ Returned.content = OUTPUT_BLOCKED_MESSAGE

C5_Witness ==
  /\ AfterPoll
  /\ last.ret.status = "completed"
  /\ Returned.protegrity_data.output_processing.should_filter
  /\ last.ret.tool_results # <<>>
  /\ last.env.result.content # OUTPUT_BLOCKED_MESSAGE

\* C6: every handle_user_message returns a status among blocked, error, completed and
\* pending, having appended to the conversation (after the caller's user message)
\* exactly one assistant message whose flags agree with the status; no message is
\* both pending and blocked.
C6_OneTerminalOutcome ==
  [][last'.op = "handle_user_message" =>
       /\ last'.ret.status \in {"blocked", "error", "completed", "pending"}
       /\ Len(messages') = Len(messages) + 2
       /\ SubSeq(messages', 1, Len(messages)) = messages
       /\ messages'[Len(messages) + 1].role = "user"
       /\ messages'[Len(messages) + 2].role = "assistant"
       /\ last'.ret.assistant_message = Len(messages) + 2
       /\ LET m == messages'[Len(messages) + 2]
          IN /\ last'.ret.status = "blocked" => (m.blocked /\ ~m.pending)
             /\ last'.ret.status = "pending" =>
                  (m.pending /\ ~m.blocked /\ m.content = "")
             /\ last'.ret.status \in {"error", "completed"} => ~m.pending
       /\ \A i \in 1..Len(messages') : ~(messages'[i].pending /\ messages'[i].blocked)
    ]_vars

C6_Witness ==
  /\ AfterHandle
  /\ last.ret.status = "error"
  /\ Returned.content = NO_LLM_MESSAGE

\* C7: a poll whose provider answers None or pending returns status "pending" and
\* leaves the messages of the conversation as they were, every time it is called.
C7_PollNotReadyChangesNothing ==
  [][(last'.op = "poll"
        /\ (\E i \in 1..Len(last'.events) : last'.events[i] = "poll_response")
        /\ (last'.env.result = PollNone \/ last'.env.result.status = "pending")) =>
       /\ last'.ret.status = "pending"
       /\ last'.ret.assistant_message = 0
       /\ last'.ret.tool_results = <<>>
       /\ messages' = messages
    ]_vars

C7_Witness ==
  /\ AfterPoll
  /\ Did("poll_response")
  /\ last.env.result = PendingResult
  /\ last.ret.status = "pending"
  /\ \E i \in 1..Len(messages) : messages[i].pending

\* C8: a poll that observes a completed result appends exactly one assistant message,
\* not pending, and leaves every stored message, the pending placeholder included,
\* as it was.
C8_PollCompletedAppendsOne ==
  [][(last'.op = "poll"
        /\ (\E i \in 1..Len(last'.events) : last'.events[i] = "poll_response")
        /\ last'.env.result.status = "completed") =>
       /\ Len(messages') = Len(messages) + 1
       /\ SubSeq(messages', 1, Len(messages)) = messages
       /\ messages'[Len(messages) + 1].role = "assistant"
       /\ ~messages'[Len(messages) + 1].pending
       /\ last'.ret.assistant_message = Len(messages) + 1
    ]_vars

C8_Witness ==
  /\ AfterPoll
  /\ last.ret.status = "completed"
  /\ \E i \in 1..(Len(messages) - 1) :
       messages[i].pending /\ messages[i].role = "assistant" /\ messages[i].content = ""

\* C9: for the same conversation and the same completed provider result (and the same
\* backend answers), poll commits an assistant message with the content, blocked flag,
\* agent, model and safety metadata that handle_user_message committed, and reports
\* the same tool results.
C9_PollCommitsWhatSyncCommits ==
  (AfterHandle /\ last.ret.status = "completed") =>
    LET before == SubSeq(messages, 1, Len(messages) - 1)
        p == poll(conv, before, agents, last.env)
    IN /\ p.ret.status = "completed"
       /\ p.messages = messages
       /\ p.ret.tool_results = last.ret.tool_results
       /\ p.conv = conv

C9_Witness ==
  /\ AfterHandle
  /\ last.ret.status = "completed"
  /\ last.ret.tool_results # <<>>
  /\ ~Returned.blocked
  /\ Returned.agent = "agent-1"

\* C10: when send_message answers pending, handle_user_message commits one assistant
\* message, pending with empty content, returns status "pending", and runs neither
\* the tools nor the output safety pass.
C10_PendingTurn ==
  (AfterHandle /\ Did("send_message") /\ last.env.result.status = "pending") =>
    /\ last.ret.status = "pending"
    /\ last.ret.tool_results = <<>>
    /\ Len(messages) = last.user_message_id + 1
    /\ last.ret.assistant_message = Len(messages)
    /\ Count(last.events, "Message.objects.create") = 1
    /\ Returned.role = "assistant"
    /\ Returned.pending
    /\ Returned.content = ""
    /\ ~Returned.blocked
    /\ ~Did("execute_tool_calls")
    /\ ~Did("process_llm_response")
    /\ \A i \in 1..Len(last.calls) :
         /\ last.calls[i].api # "_execute_protegrity_tool"
         /\ last.calls[i].arg # "ai_to_user"

C10_Witness ==
  /\ AfterHandle
  /\ Did("send_message")
  /\ last.env.result = PendingResult
  /\ job = "running"

\* ------------------------------------------------------------ the tool router

RouterRan == router.phase = "execute_tool_calls"

\* the tools assigned to the agent of the last batch
Assigned == IF router.agent = "None" THEN {} ELSE agents[router.agent].tools

AssignedIds == {t.id : t \in Assigned}

ActiveIds == {t.id : t \in {u \in Assigned : u.is_active}}

ActiveProtegrityIds ==
  {t.id : t \in {u \in Assigned : u.is_active /\ u.tool_type = "protegrity"}}

NotAuthorized(name) == "Tool '" \o name \o "' not found or not authorized for this agent"

HandlerCalls(calls) == {k \in 1..Len(calls) : calls[k].api = "_execute_protegrity_tool"}

RemoveAt(seq, i) == SubSeq(seq, 1, i - 1) \o SubSeq(seq, i + 1, Len(seq))

\* C11: execute_tool_calls returns one result per call, in the order of the calls;
\* the i-th result carries the i-th call's call_id ("unknown" when the call has none)
\* and tool_name, whether the call failed or not and whether it repeats another one.
C11_OneResultPerCallInOrder ==
  RouterRan =>
    /\ ~router.out.raised
    /\ Len(router.out.ret) = Len(router.tool_calls)
    /\ \A i \in 1..Len(router.tool_calls) :
         /\ router.out.ret[i].tool_name = router.tool_calls[i].tool_name
         /\ router.out.ret[i].call_id =
              (IF "call_id" \in DOMAIN router.tool_calls[i]
               THEN router.tool_calls[i].call_id ELSE "unknown")

C11_Witness ==
  /\ RouterRan
  /\ Len(router.tool_calls) = 3
  /\ router.tool_calls[1] = router.tool_calls[3]
  /\ "output" \in DOMAIN router.out.ret[1]
  /\ "error" \in DOMAIN router.out.ret[2]
  /\ "output" \in DOMAIN router.out.ret[3]

\* C12: a handler is entered only for a tool that is assigned to the agent and active
\* (once for each call to such a protegrity tool); a call whose tool is not assigned
\* to the agent gets the "not found or not authorized" error and no output, and a
\* batch without a call to an assigned active tool makes no handler or backend call.
C12_HandlersOnlyForAssignedActiveTools ==
  RouterRan =>
    /\ \A k \in HandlerCalls(router.out.calls) : router.out.calls[k].arg \in ActiveIds
    /\ Cardinality(HandlerCalls(router.out.calls))
         = Cardinality({i \in 1..Len(router.tool_calls) :
                          router.tool_calls[i].tool_name \in ActiveProtegrityIds})
    /\ \A i \in 1..Len(router.tool_calls) :
         router.tool_calls[i].tool_name \notin AssignedIds =>
           /\ "error" \in DOMAIN router.out.ret[i]
           /\ router.out.ret[i].error = NotAuthorized(router.tool_calls[i].tool_name)
           /\ "output" \notin DOMAIN router.out.ret[i]
    /\ (\A i \in 1..Len(router.tool_calls) :
          router.tool_calls[i].tool_name \notin ActiveIds) => router.out.calls = <<>>

C12_Witness ==
  /\ RouterRan
  /\ router.agent = "agent-1"
  /\ Len(router.tool_calls) = 2
  /\ router.tool_calls[1].tool_name = "protegrity-unprotect"
  /\ router.out.ret[1].error = NotAuthorized("protegrity-unprotect")
  /\ router.tool_calls[2].tool_name = "protegrity-redact"
  /\ Cardinality(HandlerCalls(router.out.calls)) = 1

\* C13: without an agent, every call of a non-empty batch gets the "not found or not
\* authorized" error, and no handler or backend is called.
C13_NoAgentFailsClosed ==
  (RouterRan /\ router.agent = "None" /\ router.tool_calls # <<>>) =>
    /\ Len(router.out.ret) = Len(router.tool_calls)
    /\ \A i \in 1..Len(router.tool_calls) :
         /\ "error" \in DOMAIN router.out.ret[i]
         /\ router.out.ret[i].error = NotAuthorized(router.tool_calls[i].tool_name)
         /\ "output" \notin DOMAIN router.out.ret[i]
    /\ router.out.calls = <<>>

C13_Witness ==
  /\ RouterRan
  /\ router.agent = "None"
  /\ Len(router.tool_calls) = 3
  /\ router.tool_calls[2].tool_name = "protegrity-redact"
  /\ router.tool_calls[3].tool_name = "web-search"

\* the calls of the last batch whose handler raises: the dispatch has no branch for
\* the tool, the service has no unprotect_data, or the discovery answer lacks a score
RaisingCall(i) ==
  /\ router.tool_calls[i].tool_name \in ActiveProtegrityIds
  /\ \/ router.tool_calls[i].tool_name \in {"protegrity-unknown", "protegrity-unprotect"}
     \/ /\ router.tool_calls[i].tool_name = "protegrity-classify"
        /\ MissingScore(router.disc.classifications)

RaisedMessage(name) ==
  IF name = "protegrity-unknown"
  THEN "No handler defined for Protegrity tool 'protegrity-unknown'. "
       \o "Update _execute_protegrity_tool() to add support."
  ELSE IF name = "protegrity-unprotect"
  THEN "'ProtegrityService' object has no attribute 'unprotect_data'"
  ELSE "'score'"

\* C14: when the handler of a call raises, the call's result is an error carrying the
\* exception's message, and the other calls of the batch get the results they get
\* in the batch without that call.
C14_RaisingHandlerIsIsolated ==
  RouterRan =>
    \A i \in 1..Len(router.tool_calls) :
      RaisingCall(i) =>
        /\ ~router.out.raised
        /\ Len(router.out.ret) = Len(router.tool_calls)
        /\ "error" \in DOMAIN router.out.ret[i]
        /\ router.out.ret[i].error = RaisedMessage(router.tool_calls[i].tool_name)
        /\ "output" \notin DOMAIN router.out.ret[i]
        /\ execute_tool_calls(router.agent, RemoveAt(router.tool_calls, i), agents,
                              [gr |-> GuardrailOk(10), disc |-> router.disc]).ret
             = RemoveAt(router.out.ret, i)

C14_Witness ==
  /\ RouterRan
  /\ Len(router.tool_calls) = 3
  /\ RaisingCall(1)
  /\ router.tool_calls[1].tool_name = "protegrity-classify"
  /\ "output" \in DOMAIN router.out.ret[2]
  /\ "output" \in DOMAIN router.out.ret[3]
  /\ router.tool_calls[3].tool_name = "protegrity-redact"

\* the calls of the last batch to an assigned, active protegrity tool that the
\* dispatch of _execute_protegrity_tool does not know
UnknownHandlerCall(i) ==
  /\ router.tool_calls[i].tool_name \in ActiveProtegrityIds
  /\ router.tool_calls[i].tool_name \notin
       {"protegrity-redact", "protegrity-classify", "protegrity-guardrails",
        "protegrity-protect", "protegrity-unprotect"}

ToolRouterRaised ==
  /\ last.op \in {"handle_user_message", "poll"}
  /\ Did("execute_tool_calls")
  /\ execute_tool_calls(_resolve_agent_and_llm(conv, agents).agent,
                        last.env.result.tool_calls, agents,
                        [gr |-> last.env.gr_out, disc |-> last.env.disc_out]).raised

\* C15: when execute_tool_calls itself raises during a turn, handle_user_message
\* and poll still return: the exception does not reach their caller, the tool
\* results hold an error-shaped entry, the output safety pass runs and the
\* assistant message is committed.
C15_RouterFailureIsCaught ==
  ToolRouterRaised =>
    /\ last.ret.status = "completed"
    /\ Did("process_llm_response")
    /\ Did("Message.objects.create")
    /\ last.ret.assistant_message = Len(messages)
    /\ messages[Len(messages)].role = "assistant"
    /\ \E i \in 1..Len(last.ret.tool_results) :
         "error" \in DOMAIN last.ret.tool_results[i]

\* what the code does instead: the exception leaves the handler, nothing is committed
C15_TurnIsLost ==
  /\ ToolRouterRaised
  /\ last.ret.status = "raised"
  /\ ~Did("process_llm_response")
  /\ \A i \in 1..Len(messages) : messages[i].role = "user"


\* ---------------------------------------------------------------- C17

RealProviderTypes == {"azure", "bedrock", "openai", "anthropic"}

\* C17: get_provider never raises. Without a model configuration it returns the
\* DummyProvider on the placeholder identity with id "dummy"; when constructing
\* the adapter of a real provider type fails, or the provider type is not a
\* recognised one, it returns a DummyProvider.
C17_GetProviderFallsBack ==
  prov.phase # "idle" =>
    /\ ~prov.out.raised
    /\ prov.llm_provider = LLMNone
         => /\ prov.out.provider.cls = "DummyProvider"
            /\ prov.out.provider.llm_provider.id = "dummy"
    /\ (prov.llm_provider # LLMNone
          /\ (prov.init # "ok" \/ prov.llm_provider.provider_type \notin RealProviderTypes))
         => /\ prov.out.provider.cls = "DummyProvider"
            /\ prov.out.provider.llm_provider = prov.llm_provider

C17_Witness ==
  /\ prov.phase = "get_provider"
  /\ prov.llm_provider = LLM("llm-anthropic", "anthropic")
  /\ prov.init = "ValueError"
  /\ ~prov.out.raised
  /\ prov.out.provider = DummyProvider(prov.llm_provider)

\* ---------------------------------------------------------------- C18

IsWarning(content) ==
  /\ Len(content) >= Len(WARN)
  /\ SubSeq(content, 1, Len(WARN)) = WARN

\* an error occurs during the call: the backend fails, or the tool definitions
\* cannot be built from the agent
SendFails ==
  \/ prov.api # "ok" /\ prov.out.provider.cls # "DummyProvider"
  \/ /\ prov.out.provider.cls \in {"OpenAIProvider", "AnthropicProvider"}
     /\ \E i \in 1..Len(prov.agent.tools) : ~IsDict(prov.agent.tools[i])

\* C18: send_message of every adapter returns, with status completed, and with
\* a warning as content when an error occurred during the call, building the
\* request included.
C18_SendMessageNeverRaises ==
  prov.phase = "send_message" =>
    /\ ~prov.sent.raised
    /\ prov.sent.result.status = "completed"
    /\ SendFails => IsWarning(prov.sent.result.content)

\* what the Anthropic adapter does on a tool whose function_schema is a str
C18_AnthropicRaises ==
  /\ prov.phase = "send_message"
  /\ prov.out.provider.cls = "AnthropicProvider"
  /\ prov.sent.raised
  /\ prov.sent.error = "'str' object has no attribute 'get'"


\* ---------------------------------------------------------------- C19

GuardrailFailed == pipe.phase = "process_full_pipeline" /\ pipe.gr.kind # "ok"

\* what the pipeline returns for the same text, mode and discovery answers when
\* the guardrail accepts the text
AsAccepted ==
  process_full_pipeline(pipe.text, pipe.mode, GuardrailOk(0), pipe.d1, pipe.d2)

\* C19: when the guardrail check fails (the request raises, or the backend
\* answers with a non-200 status), the verdict is outcome "error" with risk
\* score 0 and process_full_pipeline goes on as for an accepted text:
\* should_block is false, discovery and redaction are what they are for an
\* accepted text.
C19_GuardrailFailureFailsOpen ==
  GuardrailFailed =>
    /\ pipe.out.ret.guardrails.outcome = "error"
    /\ pipe.out.ret.guardrails.risk_score = 0
    /\ ~pipe.out.ret.should_block
    /\ [pipe.out.ret EXCEPT !.guardrails = EmptyDict]
         = [AsAccepted.ret EXCEPT !.guardrails = EmptyDict]
    /\ pipe.out.raised = AsAccepted.raised
    /\ Tail(pipe.out.calls) = Tail(AsAccepted.calls)

C19_Witness ==
  /\ GuardrailFailed
  /\ pipe.gr.kind = "http_error"
  /\ pipe.mode = "redact"
  /\ ~pipe.out.ret.should_block
  /\ pipe.out.ret.discovery # <<>>
  /\ pipe.out.ret.processed_text # pipe.text

\* ---------------------------------------------------------------- C20

\* the discovery backend is unreachable, answers with a non-200 status, or
\* answers so that reading the answer raises
DiscoveryFailed(resp) == resp.kind # "ok" \/ MissingScore(resp.classifications)

\* C20: when discovery fails on a text the guardrail did not reject, the
\* pipeline in redact mode returns the original text as processed_text with
\* should_block false, and the redaction metadata says success = false.
C20_DiscoveryFailureIsReported ==
  (/\ pipe.phase = "process_full_pipeline"
   /\ pipe.mode = "redact"
   /\ pipe.out.ret.guardrails.outcome # "rejected"
   /\ DiscoveryFailed(pipe.d1)
   /\ DiscoveryFailed(pipe.d2))
    => /\ ~pipe.out.raised
       /\ ~pipe.out.ret.should_block
       /\ pipe.out.ret.processed_text = pipe.text
       /\ "success" \in DOMAIN pipe.out.ret.redaction
       /\ pipe.out.ret.redaction.success = FALSE

\* what the code does when the backend is unreachable: redaction reports success
C20_FailureReportedAsSuccess ==
  /\ pipe.phase = "process_full_pipeline"
  /\ pipe.mode = "redact"
  /\ pipe.d1 = DiscoveryDown
  /\ pipe.d2 = DiscoveryDown
  /\ ~pipe.out.raised
  /\ pipe.out.ret.processed_text = pipe.text
  /\ pipe.out.ret.redaction = [success |-> TRUE, method |-> "redact", entities_found |-> 0]

\* and when the answer cannot be read: the exception leaves process_full_pipeline
C20_MalformedAnswerRaises ==
  /\ pipe.phase = "process_full_pipeline"
  /\ pipe.d1 = DiscoveryMalformed
  /\ pipe.out.raised


\* ---------------------------------------------------------------- C21

\* whether sub occurs in s
Contains(s, sub) ==
  \E i \in 1..(Len(s) - Len(sub) + 1) : SubSeq(s, i, i + Len(sub) - 1) = sub

\* the detections of a discovery result, as [type, start, end, original]
ReportedSpans(discovery) == Replacements(discovery)

\* the characters of text from offset i on that no reported span covers
RECURSIVE Uncovered(_, _, _)
Uncovered(text, spans, i) ==
  IF i >= Len(text) THEN ""
  ELSE (IF \E k \in 1..Len(spans) : spans[k].start <= i /\ i < spans[k].end
        THEN "" ELSE SubSeq(text, i + 1, i + 1))
       \o Uncovered(text, spans, i + 1)

\* s from offset i on, without the placeholders of the reported spans
RECURSIVE WithoutPlaceholders(_, _, _)
WithoutPlaceholders(s, spans, i) ==
  IF i >= Len(s) THEN ""
  ELSE IF \E k \in 1..Len(spans) :
            Slice(s, i, i + Len(spans[k].type) + 2) = "[" \o spans[k].type \o "]"
  THEN LET k == CHOOSE k \in 1..Len(spans) :
                  Slice(s, i, i + Len(spans[k].type) + 2) = "[" \o spans[k].type \o "]"
       IN WithoutPlaceholders(s, spans, i + Len(spans[k].type) + 2)
  ELSE SubSeq(s, i + 1, i + 1) \o WithoutPlaceholders(s, spans, i + 1)

\* the pipeline ran in a redacting mode on a text the guardrail let through, and
\* discovery reported entities
RedactedWithEntities ==
  /\ pipe.phase = "process_full_pipeline"
  /\ pipe.mode \in {"redact", "protect"}
  /\ pipe.d1 = pipe.d2
  /\ ~pipe.out.raised
  /\ ~pipe.out.ret.should_block
  /\ pipe.out.ret.discovery # <<>>

\* C21: in modes redact and protect, when discovery reports entity spans for the
\* text, processed_text holds none of the entities' original texts verbatim and
\* every reported span is replaced by its [TYPE] placeholder, whether the spans
\* are disjoint, overlapping or nested: besides placeholders, processed_text
\* holds exactly the characters of the text that no span covers.
C21_SpansReplacedByPlaceholders ==
  RedactedWithEntities =>
    LET spans == ReportedSpans(pipe.out.ret.discovery)
    IN /\ \A k \in 1..Len(spans) :
            ~Contains(pipe.out.ret.processed_text, spans[k].original)
       /\ WithoutPlaceholders(pipe.out.ret.processed_text, spans, 0)
            = Uncovered(pipe.text, spans, 0)

\* what the code returns when two types are reported for the same digits
C21_SameSpanGarbled ==
  /\ RedactedWithEntities
  /\ pipe.text = "id 123"
  /\ pipe.d1 = DiscoverySameSpan
  /\ pipe.out.ret.processed_text = "id [PHONE]N]"

\* disjoint spans are replaced as the claim says
C21_DisjointSpansReplaced ==
  /\ RedactedWithEntities
  /\ pipe.text = "a@b 42"
  /\ Len(pipe.d1.classifications) = 2
  /\ pipe.out.ret.processed_text = "[EMAIL] [SSN]"


\* ---------------------------------------------------------------- C22

\* what the pipeline returns for the same text and backend answers in mode redact
AsRedact == process_full_pipeline(pipe.text, "redact", pipe.gr, pipe.d1, pipe.d2)

Adoptable ==
  /\ conv.primary_llm = "None"
  /\ conv.primary_agent # "None"
  /\ agents[conv.primary_agent].default_llm # "None"

\* the step is a call of handle_user_message or poll that resolved agent and model
ResolvingStep ==
  /\ agents' = agents
  /\ \E i \in 1..Len(last'.events) : last'.events[i] = "_resolve_agent_and_llm"

\* C23: a resolution on a conversation without a model whose agent has a default
\* model adopts that model and stores it on the conversation as primary_llm and
\* model_id; from then on the conversation keeps it and every resolution returns
\* it (the message a turn commits carries it), also after the agent's default
\* has been changed.
C23_AdoptedModelSticks ==
  [][/\ (ResolvingStep /\ Adoptable) =>
          /\ conv'.primary_llm = agents[conv.primary_agent].default_llm
          /\ conv'.model_id = agents[conv.primary_agent].default_llm
     /\ conv.primary_llm # "None" =>
          /\ conv'.primary_llm = conv.primary_llm
          /\ conv'.model_id = conv.model_id
          /\ (ResolvingStep /\ Len(messages') > Len(messages)
                /\ messages'[Len(messages')].role = "assistant")
               => messages'[Len(messages')].llm_provider = conv.primary_llm
    ]_vars

C23_Witness ==
  /\ conv.primary_agent = "agent-1"
  /\ conv.primary_llm = "llm-1"
  /\ conv.model_id = "llm-1"
  /\ agents["agent-1"].default_llm = "llm-3"
  /\ AfterPoll
  /\ last.ret.status = "completed"
  /\ Returned.llm_provider = "llm-1"


\* ---------------------------------------------------------------- C24

\* the last handle_user_message let the input through and resolved no model
NoModelResolved ==
  /\ AfterHandle
  /\ last.ret.status # "raised"
  /\ ~InputResult.should_block
  /\ conv.primary_llm = "None"

\* C24: when the input is not blocked and no model is resolved for the
\* conversation, handle_user_message commits one assistant message with the
\* configuration-error text, neither blocked nor pending, returns status "error"
\* with no tool results, and neither obtains a provider nor calls send_message.
C24_NoModelTurn ==
  NoModelResolved =>
    /\ last.ret.status = "error"
    /\ last.ret.tool_results = <<>>
    /\ Len(messages) = last.user_message_id + 1
    /\ last.ret.assistant_message = Len(messages)
    /\ Count(last.events, "Message.objects.create") = 1
    /\ Returned.role = "assistant"
    /\ Returned.content = NO_LLM_MESSAGE
    /\ ~Returned.blocked
    /\ ~Returned.pending
    /\ Returned.llm_provider = "None"
    /\ ~Did("get_provider")
    /\ ~Did("send_message")

C24_Witness ==
  /\ NoModelResolved
  /\ conv.primary_agent = "agent-2"
  /\ Did("process_full_pipeline")
  /\ Returned.content = NO_LLM_MESSAGE
  /\ Returned.agent = "agent-2"


\* ---------------------------------------------------------------- C25

\* the last call committed a completed turn that ran tools
CompletedWithTools ==
  /\ AfterHandle \/ AfterPoll
  /\ last.ret.status = "completed"
  /\ last.ret.tool_results # <<>>

\* the line of the summary for one tool result
SummaryLine(tr) ==
  IF "error" \in DOMAIN tr
  THEN "- (x) " \o tr.tool_name \o ": " \o tr.error \o "\n"
  ELSE "- (ok) " \o tr.tool_name \o ": Success\n"

\* the lines for results[i..], in that order
RECURSIVE SummaryFrom(_, _)
SummaryFrom(results, i) ==
  IF i > Len(results) THEN ""
  ELSE SummaryLine(results[i]) \o SummaryFrom(results, i + 1)

EndsWith(s, suffix) ==
  /\ Len(s) >= Len(suffix)
  /\ SubSeq(s, Len(s) - Len(suffix) + 1, Len(s)) = suffix

\* the safety metadata holds the tool results next to the output pass's result
MetadataHasToolResults ==
  /\ "tool_results" \in DOMAIN Returned.protegrity_data
  /\ Returned.protegrity_data.tool_results = last.ret.tool_results
  /\ "output_processing" \in DOMAIN Returned.protegrity_data

\* C25 as stated: whenever a completed turn has tool results, the visible content
\* of the committed message includes the summary, one line per result in call
\* order, and the safety metadata holds the tool results next to the output
\* pass's result.
C25_SummaryAlwaysShown ==
  CompletedWithTools =>
    /\ Contains(Returned.content,
                "**Tools Used:**\n" \o SummaryFrom(last.ret.tool_results, 1))
    /\ MetadataHasToolResults

\* C25, amended: the summary ends the visible content unless the output pass
\* filtered the response, in which case the content is the fixed policy message
\* alone; the safety metadata holds the tool results in both cases.
C25_SummaryShownUnlessFiltered ==
  CompletedWithTools =>
    /\ MetadataHasToolResults
    /\ ~Returned.blocked =>
         EndsWith(Returned.content,
                  "\n\n---\n**Tools Used:**\n" \o SummaryFrom(last.ret.tool_results, 1))
    /\ Returned.blocked => Returned.content = OUTPUT_BLOCKED_MESSAGE

C25_Witness ==
  /\ AfterHandle
  /\ CompletedWithTools
  /\ Len(last.ret.tool_results) = 2
  /\ "output" \in DOMAIN last.ret.tool_results[1]
  /\ "error" \in DOMAIN last.ret.tool_results[2]
  /\ ~Returned.blocked
  /\ Contains(Returned.content, "- (ok) protegrity-redact: Success\n- (x) unregistered: ")


\* ---------------------------------------------------------------- C26

Disabled(name) == "Tool '" \o name \o "' is currently disabled"

\* the ids of the tools flagged inactive, whichever agent they are assigned to
InactiveIds == {t.id : t \in {u \in UNION {agents[a].tools : a \in DOMAIN agents} :
                                ~u.is_active}}

\* C26: a call to a tool that is assigned to the agent and flagged inactive
\* gets the error "... is currently disabled" and no handler runs for it; a
\* call to an inactive tool that is not assigned to the agent gets the "not
\* found or not authorized" error, the authorization check coming first.
C26_DisabledToolIsNotRun ==
  (RouterRan /\ ~router.out.raised /\ Len(router.out.ret) = Len(router.tool_calls)) =>
    /\ \A i \in 1..Len(router.tool_calls) :
         LET name == router.tool_calls[i].tool_name
         IN /\ name \in AssignedIds \ ActiveIds =>
                 /\ "error" \in DOMAIN router.out.ret[i]
                 /\ router.out.ret[i].error = Disabled(name)
                 /\ "output" \notin DOMAIN router.out.ret[i]
            /\ (name \in InactiveIds /\ name \notin AssignedIds) =>
                 /\ "error" \in DOMAIN router.out.ret[i]
                 /\ router.out.ret[i].error = NotAuthorized(name)
    /\ \A k \in HandlerCalls(router.out.calls) :
         router.out.calls[k].arg \notin AssignedIds \ ActiveIds

C26_Witness ==
  /\ RouterRan
  /\ router.agent = "agent-1"
  /\ Len(router.tool_calls) = 2
  /\ router.tool_calls[1].tool_name = "protegrity-classify"
  /\ router.out.ret[1].error = Disabled("protegrity-classify")
  /\ router.tool_calls[2].tool_name = "protegrity-retired"
  /\ router.out.ret[2].error = NotAuthorized("protegrity-retired")
  /\ router.out.calls = <<>>


\* ---------------------------------------------------------------- C27

HasOutput(result) == "output" \in DOMAIN result

HasError(result) == "error" \in DOMAIN result

\* C27: every result execute_tool_calls returns has exactly one of the keys
\* output and error.
C27_OutputXorError ==
  (RouterRan /\ ~router.out.raised) =>
    \A i \in 1..Len(router.out.ret) :
      HasOutput(router.out.ret[i]) # HasError(router.out.ret[i])

C27_Witness ==
  /\ RouterRan
  /\ ~router.out.raised
  /\ Len(router.out.ret) = 3
  /\ HasOutput(router.out.ret[1]) /\ ~HasError(router.out.ret[1])
  /\ HasError(router.out.ret[2]) /\ ~HasOutput(router.out.ret[2])
  /\ router.tool_calls[2].tool_name = "protegrity-unknown"
  /\ HasError(router.out.ret[3])
  /\ router.tool_calls[3].tool_name = "unregistered"

\* ---------------------------------------------------------------- C28

\* the ids of the agent's active tools of another type than "protegrity"
ActiveOtherIds == ActiveIds \ ActiveProtegrityIds

\* C28: a call to an assigned, active tool whose type is not "protegrity" gets a
\* result without error whose output is a warning ending in "not yet
\* implemented", and no handler runs for it.
C28_OtherTypesNotYetImplemented ==
  (RouterRan /\ ~router.out.raised /\ Len(router.out.ret) = Len(router.tool_calls)) =>
    /\ \A i \in 1..Len(router.tool_calls) :
         router.tool_calls[i].tool_name \in ActiveOtherIds =>
           /\ HasOutput(router.out.ret[i])
           /\ ~HasError(router.out.ret[i])
           /\ DOMAIN router.out.ret[i].output = {"warning"}
           /\ EndsWith(router.out.ret[i].output.warning, " not yet implemented")
    /\ \A k \in HandlerCalls(router.out.calls) :
         router.out.calls[k].arg \notin ActiveOtherIds

C28_Witness ==
  /\ RouterRan
  /\ router.agent = "agent-3"
  /\ Len(router.tool_calls) = 2
  /\ router.tool_calls[1].tool_name = "web-search"
  /\ router.out.ret[1].output = [warning |-> "Tool type 'custom' not yet implemented"]
  /\ router.tool_calls[2].tool_name = "protegrity-redact"
  /\ Cardinality(HandlerCalls(router.out.calls)) = 1

\* ---------------------------------------------------------------------- C29

NotFound(response) ==
  /\ response.status = 404
  /\ "error" \in DOMAIN response.body
  /\ response.body.error.code = "conversation_not_found"

\* the request just answered is a poll, detail or message-creation request for id
AsksFor(request, id) ==
  /\ \/ request.view = "poll_conversation" /\ request.method = "GET"
     \/ request.view = "conversation_detail"
     \/ request.view = "conversation_messages_create"
  /\ request.conversation_id = id

\* C29: once a conversation is soft-deleted, no request changes its row or its
\* messages, and a poll, detail or message-creation request for its id is answered
\* with the conversation_not_found error.
C29_DeletedConversationIsNotFound ==
  [][\A id \in Range(ConvIds) :
       web.rows[id].deleted
         => /\ web'.rows[id] = web.rows[id]
            /\ AsksFor(web'.request, id) => NotFound(web'.response)]_vars

\* a chat request carrying the id of a soft-deleted conversation was served in a
\* conversation of its own
C29_Witness ==
  /\ web.request.view = "chat"
  /\ web.request.data.conversation_id \in Range(ConvIds)
  /\ web.rows[web.request.data.conversation_id].deleted
  /\ web.turn.called
  /\ web.turn.conversation_id # web.request.data.conversation_id
  /\ Len(web.rows[web.turn.conversation_id].messages) = 2

\* ---------------------------------------------------------------------- C30

\* a resource a STANDARD user may use
OpenToStandard(resource) == resource.is_active /\ resource.min_role = "STANDARD"

\* the chat request just answered came from a STANDARD user and reached the
\* orchestrator
StandardTurn ==
  /\ web.request.view = "chat"
  /\ web.request.role = "STANDARD"
  /\ web.turn.called

\* C30: a chat request of a STANDARD user is rejected, or its turn runs under no agent
\* or an agent open to STANDARD users, and with no model or a model open to them.
C30_StandardTurnsUsePermittedResources ==
  StandardTurn
    => /\ web.turn.agent # "None" => OpenToStandard(agents[web.turn.agent])
       /\ web.turn.llm # "None" => OpenToStandard(LLMRows[web.turn.llm])

\* a STANDARD user's message was sent to a model reserved for Protegrity users
C30_StandardUserReachesProtegrityModel ==
  /\ StandardTurn
  /\ "send_message" \in Range(web.turn.events)
  /\ web.turn.llm # "None"
  /\ LLMRows[web.turn.llm].min_role = "PROTEGRITY"

\* C30 for the conversations a request creates
C30_NewConversationsUsePermittedResources ==
  (StandardTurn /\ ~active_conversation(web.rows, web.request.data.conversation_id)
     /\ Len(web.rows[web.turn.conversation_id].messages) = 2)
    => /\ web.turn.agent # "None" => OpenToStandard(agents[web.turn.agent])
       /\ web.turn.llm # "None" => OpenToStandard(LLMRows[web.turn.llm])

\* ---------------------------------------------------------------------- C31

\* the user turns of the history whose stored input pass changed the text
RedactedTurns ==
  {i \in 1..Len(last.history) :
     /\ last.history[i].role = "user"
     /\ "input_processing" \in DOMAIN messages[i].protegrity_data
     /\ Truthy(messages[i].protegrity_data.input_processing.processed_text)
     /\ messages[i].protegrity_data.input_processing.processed_text # messages[i].content}

\* C31: in every provider call, each user turn of the history whose input pass
\* produced redacted text is sent with that processed text, never with its original.
C31_HistoryCarriesProcessedText ==
  (AfterHandle /\ Did("send_message")) =>
    \A i \in RedactedTurns :
      last.history[i].content = messages[i].protegrity_data.input_processing.processed_text

\* an earlier redacted user turn reaches the provider with its original content
C31_EarlierTurnSentRaw ==
  /\ AfterHandle
  /\ Did("send_message")
  /\ \E i \in RedactedTurns :
       /\ i < last.user_message_id
       /\ last.history[i].content = "id 123"
       /\ messages[i].protegrity_data.input_processing.processed_text = "id [SSN]"

\* C31 for the turn being handled
C31_CurrentTurnSentProcessed ==
  (AfterHandle /\ Did("send_message")) =>
    \A i \in RedactedTurns :
      i = last.user_message_id =>
        last.history[i].content
          = messages[i].protegrity_data.input_processing.processed_text

\* ---------------------------------------------------------------------- C32

\* the assistant messages committed for the pending turn whose placeholder is
\* message i of msgs: those after it and before the next user message
Resolutions(msgs, i) ==
  {j \in (i + 1)..Len(msgs) :
     /\ msgs[j].role = "assistant"
     /\ ~msgs[j].pending
     /\ \A k \in (i + 1)..j : msgs[k].role # "user"}

\* C32: for one pending turn at most one resolved assistant message is committed,
\* however often the conversation is polled after the provider has completed.
C32_OneResolutionPerPendingTurn ==
  \A id \in Range(ConvIds) :
    \A i \in 1..Len(web.rows[id].messages) :
      web.rows[id].messages[i].pending
        => Cardinality(Resolutions(web.rows[id].messages, i)) <= 1

\* two polls of the same pending turn each committed an assistant message
C32_PendingTurnResolvedTwice ==
  /\ web.request.view = "poll_conversation"
  /\ web.response.status = 200
  /\ web.response.body.status = "completed"
  /\ \E i \in 1..Len(web.rows[web.request.conversation_id].messages) :
       /\ web.rows[web.request.conversation_id].messages[i].pending
       /\ Cardinality(Resolutions(web.rows[web.request.conversation_id].messages, i)) = 2

\* ---------------------------------------------------------------------- C33

ChatTurn == web.request.view = "chat" /\ web.turn.called

\* the position of that request's user message in its conversation
ChatUserMessageId == Len(web.rows[web.turn.conversation_id].messages) - 1

ChatUserMessage == web.rows[web.turn.conversation_id].messages[ChatUserMessageId]

\* C34: the input safety result persisted on the user turn of a chat request was
\* computed in the request's protegrity_mode, and with mode none the provider
\* receives the user's original text.
C34_InputPassRunsInRequestedMode ==
  ChatTurn
    => /\ ChatUserMessage.protegrity_data.input_processing.mode
            = web.request.data.protegrity_mode
       /\ ("send_message" \in Range(web.turn.events)
             /\ web.request.data.protegrity_mode = "none")
            => web.turn.history[ChatUserMessageId].content = web.request.data.message

\* a request in mode none whose text reached the provider redacted
C34_ModeNoneIsRedacted ==
  /\ ChatTurn
  /\ web.request.data.protegrity_mode = "none"
  /\ "send_message" \in Range(web.turn.events)
  /\ web.request.data.message = "id 123"
  /\ web.turn.history[ChatUserMessageId].content = "id [SSN]"
  /\ ChatUserMessage.protegrity_data.input_processing.mode = "redact"

\* ---------------------------------------------------------------------- C35

\* {"error": {"code": ..., "message": ...}}
ErrorEnvelope(response) ==
  /\ "error" \in DOMAIN response.body
  /\ DOMAIN response.body.error = {"code", "message"}

\* a completed, pending, blocked or error payload of the chat endpoint
TurnPayload(response) ==
  /\ response.status = 200
  /\ "status" \in DOMAIN response.body
  /\ response.body.status \in {"completed", "pending", "blocked", "error"}
  /\ "messages" \in DOMAIN response.body

\* C35: a chat request that reaches the orchestrator is answered with a turn payload
\* or with a structured error envelope, and a turn the orchestrator ends as blocked
\* is answered with status "blocked".
C35_TurnsGetStructuredAnswers ==
  ChatTurn
    => /\ TurnPayload(web.response) \/ ErrorEnvelope(web.response)
       /\ web.turn.status = "blocked"
            => TurnPayload(web.response) /\ web.response.body.status = "blocked"

\* the orchestrator blocked the turn and committed its refusal, and the client got
\* a bare HTTP 500
C35_BlockedTurnAnswered500 ==
  /\ ChatTurn
  /\ web.turn.status = "blocked"
  /\ web.rows[web.turn.conversation_id].messages[ChatUserMessageId + 1].blocked
  /\ web.response = JsonResponse([detail |-> "Unexpected orchestrator response"], 500)

\* ---------------------------------------------------------------------- C36

Parsed == router.phase = "parsed"

ParsedCall == router.tool_calls[1]

\* the tool of the parsed call is assigned to the agent, active, and has a handler
Dispatchable ==
  /\ router.agent # "None"
  /\ \E t \in agents[router.agent].tools :
       /\ t.id = ParsedCall.tool_name
       /\ t.is_active
       /\ t.tool_type = "protegrity"
       /\ t.id \in {"protegrity-redact", "protegrity-classify", "protegrity-guardrails"}

\* C36: the arguments of every tool call an adapter produces are a map, an empty one
\* when the payload is not a JSON object, and a call with a well-formed payload to an
\* authorized active tool is dispatched.
C36_ArgumentsAreAMap ==
  Parsed
    => /\ IsDict(ParsedCall.arguments)
       /\ router.raw # "{\"text\": \"id 123\"}" => ParsedCall.arguments = EmptyDict
       /\ (Dispatchable /\ router.raw = "{\"text\": \"id 123\"}"
             /\ router.disc.kind = "ok")
            => /\ Len(router.out.ret) = 1
               /\ "output" \in DOMAIN router.out.ret[1]

\* the Azure adapter hands the payload over as text, and a well-formed call to an
\* authorized active tool fails on it
C36_AzureCallFailsOnArguments ==
  /\ Parsed
  /\ router.adapter = "azure"
  /\ router.raw = "{\"text\": \"id 123\"}"
  /\ Dispatchable
  /\ ParsedCall.arguments = [str |-> "{\"text\": \"id 123\"}"]
  /\ router.out.ret = <<ToolError(ParsedCall, "'str' object has no attribute 'get'")>>

\* the OpenAI adapter keeps a payload that is JSON but not an object
C36_OpenAIKeepsNonObject ==
  /\ Parsed
  /\ router.adapter = "openai"
  /\ router.raw = "[\"id 123\"]"
  /\ ParsedCall.arguments = [list |-> <<"id 123">>]

\* C36 for the Anthropic adapter and the fallback provider, and for payloads the
\* OpenAI adapter cannot decode
C36_OtherAdaptersProduceMaps ==
  (Parsed /\ (router.adapter \in {"anthropic", "dummy"}
                \/ (router.adapter = "openai"
                      /\ router.raw \in {"", "{\"text\": \"id 1", "{\"text\": \"id 123\"}"})))
    => /\ IsDict(ParsedCall.arguments)
       /\ router.raw # "{\"text\": \"id 123\"}" => ParsedCall.arguments = EmptyDict

\* ---------------------------------------------------------------------- C37

\* C37: a poll that returns status pending or error leaves the conversation's agent,
\* model and model_id as they were.
C37_UnfinishedPollKeepsConversation ==
  [][(last'.op = "poll" /\ last'.ret.status \in {"pending", "error"}) =>
       /\ conv'.primary_agent = conv.primary_agent
       /\ conv'.primary_llm = conv.primary_llm
       /\ conv'.model_id = conv.model_id
    ]_vars

\* a poll that returned pending has saved the agent's default model on the conversation
C37_PendingPollAdoptedModel ==
  /\ AfterPoll
  /\ last.ret.status = "pending"
  /\ Did("conversation.save")
  /\ conv.primary_llm = agents[conv.primary_agent].default_llm
  /\ conv.model_id = conv.primary_llm

\* C37 for the polls that return error: no model was resolved, so none was adopted
C37_ErrorPollKeepsConversation ==
  [][(last'.op = "poll" /\ last'.ret.status = "error") =>
       /\ conv' = conv
       /\ conv.primary_llm = "None"
    ]_vars

\* ---------------------------------------------------------------------- C38

\* the entity spans redact_data worked on, in the order it met them
RedactSpans ==
  IF "entities" \in DOMAIN pipe.out.meta THEN Replacements(pipe.out.meta.entities)
  ELSE <<>>

\* no two of the spans share a character
PairwiseDisjoint(spans) ==
  \A a, b \in 1..Len(spans) :
    a # b => (spans[a].end <= spans[b].start \/ spans[b].end <= spans[a].start)

\* text from offset i on with each span of the set replaced by its placeholder; the
\* order of the spans plays no part
RECURSIVE Redacted(_, _, _)
Redacted(text, spanset, i) ==
  IF i >= Len(text) THEN ""
  ELSE IF \E sp \in spanset : sp.start = i
  THEN LET sp == CHOOSE sp \in spanset : sp.start = i
       IN "[" \o sp.type \o "]" \o Redacted(text, spanset, sp.end)
  ELSE SubSeq(text, i + 1, i + 1) \o Redacted(text, spanset, i + 1)

\* C38: for pairwise disjoint entity spans redact_data returns the text with each
\* span replaced by its [TYPE] placeholder and every other character kept in place,
\* whatever the order in which the entities were reported.
C38_DisjointSpansRedactedInAnyOrder ==
  (pipe.phase = "redact_data" /\ PairwiseDisjoint(RedactSpans))
    => pipe.out.text
         = Redacted(pipe.text, {RedactSpans[k] : k \in 1..Len(RedactSpans)}, 0)

\* three disjoint spans of two types, the leftmost reported first and the middle
\* one last
C38_Witness ==
  /\ pipe.phase = "redact_data"
  /\ pipe.text = "a@b 42"
  /\ Len(RedactSpans) = 3
  /\ PairwiseDisjoint(RedactSpans)
  /\ RedactSpans[1].start = 0
  /\ RedactSpans[2].start = 4
  /\ RedactSpans[3].start = 2
  /\ pipe.out.text = "[EMAIL][SSN] [EMAIL]"

\* ---------------------------------------------------------------------- C39

\* C39: when handle_user_message raises, the store holds none of the call's writes:
\* the user message is as the caller saved it, without safety data, the conversation
\* has adopted no model, and no assistant message was added.
C39_RaisingTurnWritesNothing ==
  [][(last'.op = "handle_user_message" /\ last'.ret.status = "raised") =>
       /\ conv' = conv
       /\ Len(messages') = Len(messages) + 1
       /\ SubSeq(messages', 1, Len(messages)) = messages
       /\ messages'[Len(messages')].role = "user"
       /\ messages'[Len(messages')].protegrity_data = EmptyDict
    ]_vars

\* the call had saved the safety data and the adopted model before it raised, and the
\* store shows neither
C39_Witness ==
  /\ AfterHandle
  /\ last.ret.status = "raised"
  /\ Did("user_message.save")
  /\ Did("conversation.save")
  /\ conv.primary_agent = "agent-1"
  /\ conv.primary_llm = "None"
  /\ messages[Len(messages)].role = "user"
  /\ messages[Len(messages)].protegrity_data = EmptyDict

\* ---------------------------------------------------------------------- C40

\* the instances the calls of get_protegrity_service have returned
ReturnedServices ==
  UNION {{pipe.got[t][i] : i \in 1..Len(pipe.got[t])} : t \in Threads}

\* C40: every call of get_protegrity_service returns the same instance, concurrent
\* first calls included, and ProtegrityService is constructed at most once.
C40_OneSharedInstance ==
  pipe.phase = "get_protegrity_service"
    => /\ pipe.constructed <= 1
       /\ Cardinality(ReturnedServices) <= 1

\* two threads made their first calls together and hold different instances
C40_TwoInstancesReturned ==
  /\ pipe.phase = "get_protegrity_service"
  /\ pipe.constructed = 2
  /\ pipe.got["t1"] # <<>>
  /\ pipe.got["t2"] # <<>>
  /\ pipe.got["t1"][1] # pipe.got["t2"][1]

\* C40 while a single thread calls: one instance, constructed once
C40_SequentialCallsShareInstance ==
  (pipe.phase = "get_protegrity_service"
     /\ pipe.pc["t2"] = "idle" /\ pipe.got["t2"] = <<>>)
    => /\ pipe.constructed <= 1
       /\ Cardinality(ReturnedServices) <= 1
       /\ Len(pipe.got["t1"]) = MaxServiceCalls => pipe.constructed = 1

====
